---- MODULE Spec2Model ----
(***************************************************************************)
(* Model of the magnifier's tick pipeline: the capture engine              *)
(* (capture_engine.cpp), the viewport resolution App::UpdateViewState and  *)
(* the signal, key, click and zoom handlers of App (app.cpp).              *)
(*                                                                         *)
(* Numbers.  The program computes in 32-bit floats.  A float is modelled   *)
(* as an integer count of 2^-18 pixel (Unit), and every float operation    *)
(* rounds its exact result to the float32 grid at the result's magnitude   *)
(* (24 significant bits, ties to even).  For magnitudes below 64 pixels    *)
(* float32 is finer than 2^-18 pixel; there the model rounds to 2^-18.     *)
(* Times are GetTickCount64 milliseconds.  Zoom is kept in quarters        *)
(* (ZoomDen), the grid kZoomStep moves on.                                 *)
(***************************************************************************)
EXTENDS Integers, Sequences, FiniteSets, TLC

(***************************************************************************)
(* Float32 arithmetic on fixed-point integers                              *)
(***************************************************************************)
Unit == 2^18

Px(n) == n * Unit

Abs(v) == IF v < 0 THEN -v ELSE v

Min(a, b) == IF b < a THEN b ELSE a

Max(a, b) == IF a < b THEN b ELSE a

\* std::clamp(v, lo, hi): (v < lo) ? lo : (hi < v) ? hi : v
Clamp(v, lo, hi) == IF v < lo THEN lo ELSE IF hi < v THEN hi ELSE v

\* Spacing of the float32 grid at magnitude m (in Units): 24 significant bits.
Ulp(m) ==
    IF m < 2^24 THEN 1
    ELSE IF m < 2^25 THEN 2
    ELSE IF m < 2^26 THEN 4
    ELSE IF m < 2^27 THEN 8
    ELSE IF m < 2^28 THEN 16
    ELSE IF m < 2^29 THEN 32
    ELSE IF m < 2^30 THEN 64
    ELSE 128

\* The multiple of u nearest to i + r/d (i >= 0, 0 <= r < d), ties to the
\* even multiple.  (i % u) * d + r is the part below the multiple, over d.
RoundTo(i, r, d, u) ==
    IF 2 * ((i % u) * d + r) < u * d THEN (i \div u) * u
    ELSE IF 2 * ((i % u) * d + r) > u * d THEN (i \div u + 1) * u
    ELSE IF (i \div u) % 2 = 0 THEN (i \div u) * u ELSE (i \div u + 1) * u

\* The float nearest to i + r/d (i >= 0, 0 <= r < d), ties to even.
RoundQ(i, r, d) == RoundTo(i, r, d, Ulp(i))

\* A float result whose exact value is the integer v (in Units).
F32(v) == IF v < 0 THEN -RoundQ(-v, 0, 1) ELSE RoundQ(v, 0, 1)

FAdd(a, b) == F32(a + b)

FSub(a, b) == F32(a - b)

\* float(n) / float(z / ZoomDen) for integers n, z: the float nearest n*den/z pixels.
FDivInt(n, den, z) ==
    LET a == n * den
    IN  RoundQ((a \div z) * Unit + ((a % z) * Unit) \div z, ((a % z) * Unit) % z, z)

\* static_cast<LONG>(std::floor(v)) and static_cast<LONG>(std::ceil(v))
Floor(v) == v \div Unit

Ceil(v) == -((-v) \div Unit)

\* smoothing_factor_ = 0.45f, whose float32 value is 7549747 / 2^24.
smoothing_factor_ == 7549747

\* float(a) * smoothing_factor_ for a >= 0, from 12-bit limbs so that no
\* intermediate product leaves 32 bits.
MulSmoothAbs(a) ==
    LET ah == a \div 4096
        al == a % 4096
        kh == smoothing_factor_ \div 4096
        kl == smoothing_factor_ % 4096
        m  == ah * kl + al * kh
        lo == (m % 4096) * 4096 + al * kl
    IN  RoundQ(ah * kh + m \div 4096 + lo \div 2^24, lo % 2^24, 2^24)

\* A step of the whole offset
FMulSmoothFull(dx) == dx

\* dx * smoothing_factor_
FMulSmooth(dx) == IF dx < 0 THEN -MulSmoothAbs(-dx) ELSE MulSmoothAbs(dx)

\* kClickLimitPixelsPerSecond * (elapsed_ms / 1000.0f), elapsed in milliseconds
kClickLimitPixelsPerSecond == 50

\* A limit that stops growing 10 s after the click
ClickLimitCapped(elapsed) ==
    LET a == (IF elapsed > 10000 THEN 10000 ELSE elapsed) * kClickLimitPixelsPerSecond
    IN  RoundQ((a \div 1000) * Unit + ((a % 1000) * Unit) \div 1000,
               ((a % 1000) * Unit) % 1000, 1000)

ClickLimit(elapsed) ==
    LET a == elapsed * kClickLimitPixelsPerSecond
    IN  RoundQ((a \div 1000) * Unit + ((a % 1000) * Unit) \div 1000,
               ((a % 1000) * Unit) % 1000, 1000)

\* std::sqrt(dx*dx + dy*dy) against a whole number of pixels r.  An offset
\* beyond r on one axis decides it; otherwise both offsets are cut to
\* 2^(s-18) pixel, s chosen so that the squares stay within 32 bits.
DistSq(dx, dy, s) == (Abs(dx) \div 2^s) * (Abs(dx) \div 2^s)
                     + (Abs(dy) \div 2^s) * (Abs(dy) \div 2^s)

DistanceGt(dx, dy, r, s) ==
    \/ Abs(dx) > Px(r)
    \/ Abs(dy) > Px(r)
    \/ DistSq(dx, dy, s) > (Px(r) \div 2^s) * (Px(r) \div 2^s)

DistanceGe(dx, dy, r, s) ==
    \/ Abs(dx) > Px(r)
    \/ Abs(dy) > Px(r)
    \/ DistSq(dx, dy, s) >= (Px(r) \div 2^s) * (Px(r) \div 2^s)

(***************************************************************************)
(* Program constants (app.cpp:31-45, app.h:142)                            *)
(***************************************************************************)
ZoomDen == 4                            \* zoom_ is kept as zoom * ZoomDen
kZoomStep == 1                          \* 0.25f
kMinZoom == 4                           \* 1.0f
kMaxZoom == 48                          \* 12.0f
kCaretFollowTimeoutMs == 600
kMouseFollowTimeoutMs == 160
kFocusFollowTimeoutMs == 900
kPreviousCenterRecordThreshold == 160
kPreviousCenterRecordCooldownMs == 500
kEndHoldThresholdMs == 1000
kEndIgnoreCursorMs == 500
dead_zone_pixels_ == 16
kCaretWidthShift == 4                   \* target.x += 4.0f
WHEEL_DELTA == 120

Modes == {"Auto", "Caret", "Mouse", "Focus", "Manual"}

(***************************************************************************)
(* Bounds of the model and the environment's inputs                        *)
(***************************************************************************)
StartTime == 2000       \* GetTickCount64() when the timer starts
TimeStep == 500         \* the clock advances in steps of TimeStep ms
MaxTime == 3250         \* the clock stops here

Pt(x, y) == [x |-> x, y |-> y]

Rect(l, t, r, b) == [left |-> l, top |-> t, right |-> r, bottom |-> b]

\* The selected source monitor (MonitorInfo): bounds and DPI scale * 4.
SourceMonitor == [bounds |-> Rect(0, 0, 1920, 1080), scale4 |-> 4]

\* Modes the duplicated output can be in (DXGI_OUTDUPL_DESC.ModeDesc).
\* Every mode is at least 768 high: a view extent is then at least 64
\* pixels at zoom 12 and halving it is exact in Units.
FrameSizes == {[Width |-> 1920, Height |-> 1080], [Width |-> 1600, Height |-> 900]}

(***************************************************************************)
(* CaptureEngine (capture_engine.cpp).  The record holds the members; held *)
(* counts the frames checked out of the duplication session, overlap       *)
(* records an AcquireNextFrame issued while one was checked out and frames *)
(* counts, up to MaxFrames, the frames the session has checked out.        *)
(***************************************************************************)
MaxFrames == 2

NoFrame == [has |-> FALSE, texture |-> FALSE]

CaptureEngineInit ==
    [device_ |-> FALSE, duplication_ |-> FALSE, staging_ |-> FALSE,
     frame_acquired_ |-> FALSE, needs_reinitialize_ |-> FALSE,
     source_monitor_ |-> FALSE, frame_desc_ |-> [Width |-> 0, Height |-> 0],
     held |-> 0, overlap |-> FALSE, frames |-> 0]

\* IDXGIOutputDuplication::ReleaseFrame
DuplReleaseFrame(c) == [c EXCEPT !.held = IF c.held > 0 THEN c.held - 1 ELSE 0]

\* duplication_.Reset(): the session goes, and with it whatever it had checked out
DuplReset(c) == [c EXCEPT !.duplication_ = FALSE, !.held = 0, !.frames = 0]

\* IDXGIOutputDuplication::AcquireNextFrame returning hr
DuplAcquireNextFrame(c, hr) ==
    [c EXCEPT !.overlap = c.overlap \/ c.held > 0,
              !.held = IF hr = "S_OK" THEN c.held + 1 ELSE c.held,
              !.frames = IF hr = "S_OK" THEN Min(c.frames + 1, MaxFrames) ELSE c.frames]

\* CaptureEngine::EnsureDevice; ok: D3D11CreateDevice succeeds
EnsureDevice(c, ok) ==
    IF c.device_ THEN [c |-> c, ok |-> TRUE]
    ELSE IF ok THEN [c |-> [c EXCEPT !.device_ = TRUE], ok |-> TRUE]
    ELSE [c |-> c, ok |-> FALSE]

\* CaptureEngine::CreateDuplication; how: "ok", "no_output" (a step up to and
\* including DuplicateOutput fails) or "no_texture" (CreateTexture2D fails).
CreateDuplicationOutcomes == {"ok", "no_output", "no_texture"}

CreateDuplication(c, how, size) ==
    IF how = "no_output" THEN [c |-> c, ok |-> FALSE]
    ELSE LET d == [DuplReset(c) EXCEPT !.duplication_ = TRUE, !.frame_desc_ = size]
         IN  IF how = "no_texture"
             THEN [c |-> [d EXCEPT !.staging_ = FALSE], ok |-> FALSE]
             ELSE [c |-> [d EXCEPT !.staging_ = TRUE], ok |-> TRUE]

\* CaptureEngine::Shutdown
Shutdown(c) ==
    LET r == IF c.frame_acquired_ /\ c.duplication_
             THEN [DuplReleaseFrame(c) EXCEPT !.frame_acquired_ = FALSE]
             ELSE c
    IN  [DuplReset(r) EXCEPT !.staging_ = FALSE, !.device_ = FALSE,
                             !.source_monitor_ = FALSE, !.needs_reinitialize_ = FALSE]

\* The name of an object that is held
Held(held, name) == IF held THEN <<name>> ELSE <<>>

\* What CaptureEngine::Shutdown releases, in its order
ShutdownLog(c) ==
    Held(c.frame_acquired_ /\ c.duplication_, "frame")
        \o Held(c.duplication_, "duplication_") \o Held(c.staging_, "staging_")
        \o Held(c.device_, "context_") \o Held(c.device_, "device_")

\* An InitializeForMonitor whose failure asks for a rebuild
InitializeForMonitorRetried(c, devOk, how, size) ==
    LET s == [Shutdown(c) EXCEPT !.source_monitor_ = TRUE, !.needs_reinitialize_ = FALSE]
        e == EnsureDevice(s, devOk)
    IN  IF ~e.ok THEN [c |-> [e.c EXCEPT !.needs_reinitialize_ = TRUE], ok |-> FALSE]
        ELSE LET d == CreateDuplication(e.c, how, size)
             IN  [c |-> [d.c EXCEPT !.needs_reinitialize_ = ~d.ok], ok |-> d.ok]

\* CaptureEngine::InitializeForMonitor
InitializeForMonitor(c, devOk, how, size) ==
    LET s == [Shutdown(c) EXCEPT !.source_monitor_ = TRUE, !.needs_reinitialize_ = FALSE]
        e == EnsureDevice(s, devOk)
    IN  IF ~e.ok THEN [c |-> e.c, ok |-> FALSE]
        ELSE CreateDuplication(e.c, how, size)

\* CaptureEngine::AcquireFrame; hr is what AcquireNextFrame returns, asOk
\* whether the frame resource yields its texture interface.
AcquireResults == {"S_OK", "WAIT_TIMEOUT", "ACCESS_LOST", "FAILED"}

\* A session dropped without asking for its rebuilding
InvalidateQuietly(c) == [DuplReset(c) EXCEPT !.staging_ = FALSE, !.frame_acquired_ = FALSE]

\* The teardown after DXGI_ERROR_ACCESS_LOST or another failure of
\* AcquireNextFrame (capture_engine.cpp:69-86)
Invalidate(c) ==
    [DuplReset(c) EXCEPT !.staging_ = FALSE, !.frame_acquired_ = FALSE,
                         !.needs_reinitialize_ = TRUE]

\* A frame left checked out when AcquireFrame returns
KeepFrame(c) == c

\* duplication_->ReleaseFrame(); frame_acquired_ = false (capture_engine.cpp:
\* 90-93 and 101-103)
GiveBack(c) == [DuplReleaseFrame(c) EXCEPT !.frame_acquired_ = FALSE]

\* AcquireFrame after AcquireNextFrame returned hr (capture_engine.cpp:66-108)
AcquireOutcome(n, hr, asOk) ==
    IF hr = "WAIT_TIMEOUT" THEN [c |-> n, frame |-> NoFrame, called |-> TRUE]
    ELSE IF hr \in {"ACCESS_LOST", "FAILED"}
    THEN [c |-> Invalidate(n), frame |-> NoFrame, called |-> TRUE]
    ELSE IF ~asOk
    THEN [c |-> GiveBack(n), frame |-> NoFrame, called |-> TRUE]
    ELSE [c |-> GiveBack(n), frame |-> [has |-> TRUE, texture |-> n.staging_],
          called |-> TRUE]

AcquireFrame(c, hr, asOk) ==
    IF ~c.duplication_ THEN [c |-> c, frame |-> NoFrame, called |-> FALSE]
    ELSE AcquireOutcome(DuplAcquireNextFrame(IF c.frame_acquired_ THEN GiveBack(c) ELSE c, hr),
                        hr, asOk)

\* CaptureEngine::ReleaseFrame
ReleaseFrame(c) ==
    IF c.frame_acquired_ /\ c.duplication_ THEN GiveBack(c) ELSE c

\* A rebuilding that leaves the request for it standing
RebuiltFlagged(d) == [c |-> [d.c EXCEPT !.needs_reinitialize_ = TRUE], ok |-> d.ok]

\* needs_reinitialize_ after CreateDuplication returned d (capture_engine.cpp:133-139)
Rebuilt(d) == [c |-> [d.c EXCEPT !.needs_reinitialize_ = ~d.ok], ok |-> d.ok]

\* Reinitialize once the device is there (capture_engine.cpp:128-139)
RebuildSession(c, how, size) ==
    Rebuilt(CreateDuplication([DuplReset(c) EXCEPT !.staging_ = FALSE,
                                                   !.frame_acquired_ = FALSE],
                              how, size))

\* Reinitialize after EnsureDevice returned e
ReinitializeWith(e, how, size) ==
    IF ~e.ok THEN [c |-> e.c, ok |-> FALSE] ELSE RebuildSession(e.c, how, size)

\* CaptureEngine::Reinitialize
Reinitialize(c, devOk, how, size) ==
    IF ~c.source_monitor_ THEN [c |-> c, ok |-> FALSE]
    ELSE ReinitializeWith(EnsureDevice(c, devOk), how, size)

(***************************************************************************)
(* App (app.cpp): the members the tick and the handlers read and write     *)
(***************************************************************************)
NoPoint == [ok |-> FALSE, x |-> 0, y |-> 0]

AppInit(zoom, mode) ==
    [magnifier_active_ |-> TRUE,
     \* zoom_ = std::clamp(config_->Data().zoom, kMinZoom, kMaxZoom)
     zoom_ |-> Clamp(zoom, kMinZoom, kMaxZoom),
     tracking_mode_ |-> mode,
     view_state_ |-> [source_region |-> Rect(0, 0, 0, 0), zoom |-> 2 * ZoomDen,
                      cursor_visible |-> FALSE, cursor_x |-> 0, cursor_y |-> 0],
     mouse_position_ |-> Pt(0, 0), caret_position_ |-> Pt(0, 0),
     focus_rect_ |-> Rect(0, 0, 0, 0),
     last_caret_tick_ |-> 0, last_caret_target_tick_ |-> 0,
     last_mouse_tick_ |-> 0, last_focus_tick_ |-> 0,
     current_center_x_ |-> 0, current_center_y_ |-> 0, has_center_ |-> FALSE,
     previous_center_x_ |-> 0, previous_center_y_ |-> 0,
     has_previous_center_ |-> FALSE, previous_center_saved_tick_ |-> 0,
     control_down_ |-> FALSE, alt_down_ |-> FALSE,
     last_click_position_ |-> Pt(0, 0), last_click_tick_ |-> 0,
     has_last_click_ |-> FALSE, click_lock_active_ |-> FALSE,
     last_click_source_ |-> NoPoint,
     messenger_zone_active_ |-> FALSE, messenger_zone_source_ |-> Rect(0, 0, 0, 0),
     messenger_anchor_ |-> Pt(0, 0),
     end_key_down_ |-> FALSE, end_alignment_active_ |-> FALSE,
     end_press_tick_ |-> 0, end_ignore_inputs_until_ |-> 0,
     has_putty_anchor_ |-> FALSE, putty_anchor_source_ |-> [x |-> 0, y |-> 0],
     \* last_user_activity_tick_ = GetTickCount64() (app.cpp:202)
     last_user_activity_tick_ |-> StartTime, restart_pending_ |-> FALSE,
     quit_posted |-> FALSE]

\* PointInRect (app.cpp:54)
PointInRect(rect, pt) ==
    pt.x >= rect.left /\ pt.x < rect.right /\ pt.y >= rect.top /\ pt.y < rect.bottom

\* App::ScreenToSource: (pt - bounds origin) * scale, as a float
ScreenToSource(pt) ==
    IF ~PointInRect(SourceMonitor.bounds, pt) THEN NoPoint
    ELSE [ok |-> TRUE,
          x |-> F32(((pt.x - SourceMonitor.bounds.left) * SourceMonitor.scale4 * Unit) \div 4),
          y |-> F32(((pt.y - SourceMonitor.bounds.top) * SourceMonitor.scale4 * Unit) \div 4)]

\* A click lock that limits nothing
LimitAroundOff(a, src, limit, x, y) == [a |-> a, x |-> x, y |-> y]

\* App::ApplyClickMovementLimit: the app after it, and the limited x, y
\* app.cpp:1591-1604: the clamp around the click's source point src
LimitAround(a, src, limit, x, y) ==
    IF limit <= 0 THEN [a |-> a, x |-> src.x, y |-> src.y]
    ELSE [a |-> a,
          x |-> Clamp(x, FSub(src.x, limit), FAdd(src.x, limit)),
          y |-> Clamp(y, FSub(src.y, limit), FAdd(src.y, limit))]

\* app.cpp:1576-1589: src is last_click_source_, or the click position converted
LimitFrom(a, src, x, y, t) ==
    IF ~src.ok THEN [a |-> [a EXCEPT !.click_lock_active_ = FALSE], x |-> x, y |-> y]
    ELSE LimitAround([a EXCEPT !.last_click_source_ = src], src,
                     ClickLimit(t - a.last_click_tick_), x, y)

ApplyClickMovementLimit(a, x, y, t) ==
    IF ~a.click_lock_active_ \/ ~a.has_last_click_ THEN [a |-> a, x |-> x, y |-> y]
    ELSE LimitFrom(a, IF a.last_click_source_.ok THEN a.last_click_source_
                      ELSE ScreenToSource(a.last_click_position_), x, y, t)

\* The record of the pre-jump center (app.cpp:790-797 and 1621-1628)
RecordPreviousCenter(a, t) ==
    IF ~a.has_previous_center_
       \/ t - a.previous_center_saved_tick_ >= kPreviousCenterRecordCooldownMs
    THEN [a EXCEPT !.previous_center_x_ = a.current_center_x_,
                   !.previous_center_y_ = a.current_center_y_,
                   !.has_previous_center_ = TRUE,
                   !.previous_center_saved_tick_ = t]
    ELSE a

\* A record only when the jump is more than the threshold
RecordJumpBeyond(a, dx, dy, t) ==
    IF DistanceGt(dx, dy, kPreviousCenterRecordThreshold, 11)
    THEN RecordPreviousCenter(a, t) ELSE a

\* The record of the pre-jump center when the jump is at least the threshold
RecordJump(a, dx, dy, t) ==
    IF DistanceGe(dx, dy, kPreviousCenterRecordThreshold, 11)
    THEN RecordPreviousCenter(a, t) ELSE a

\* App::SnapCenterTo after the click limit (app.cpp:1612-1632); l holds the
\* app and the point the limit left
SnapLimited(l, t) ==
    [(IF ~l.a.has_center_ THEN l.a
      ELSE RecordJump(l.a, FSub(l.x, l.a.current_center_x_),
                      FSub(l.y, l.a.current_center_y_), t))
     EXCEPT !.current_center_x_ = l.x, !.current_center_y_ = l.y, !.has_center_ = TRUE]

\* App::SnapCenterTo
SnapCenterTo(a, x, y, t, ignore_click_limit) ==
    IF ignore_click_limit THEN SnapLimited([a |-> a, x |-> x, y |-> y], t)
    ELSE SnapLimited(ApplyClickMovementLimit(a, x, y, t), t)

(***************************************************************************)
(* App::UpdateViewState (app.cpp:614-832)                                  *)
(***************************************************************************)
NoTarget(desc) ==
    [have_target |-> FALSE, target_is_caret |-> FALSE, source |-> "none",
     \* FloatPoint target{ desc.Width / 2.0f, desc.Height / 2.0f }
     x |-> (desc.Width * Unit) \div 2, y |-> (desc.Height * Unit) \div 2]

\* A caret adopted whatever its age
UseCaretOkAnyAge(a, t, inputs_suppressed) ==
    ~inputs_suppressed /\ ScreenToSource(a.caret_position_).ok

\* use_caret (app.cpp:658-677); FALSE when it does not adopt the caret
UseCaretOk(a, t, inputs_suppressed) ==
    /\ ~inputs_suppressed
    /\ ~(t - a.last_caret_tick_ > kCaretFollowTimeoutMs)
    /\ ScreenToSource(a.caret_position_).ok

\* A pointer adopted whatever the last caret-driven center update
UseMouseOkUngated(a, t, inputs_suppressed) ==
    /\ ~inputs_suppressed
    /\ ~(t - a.last_mouse_tick_ > kMouseFollowTimeoutMs)
    /\ ScreenToSource(a.mouse_position_).ok

\* use_mouse (app.cpp:679-699)
UseMouseOk(a, t, inputs_suppressed) ==
    /\ ~inputs_suppressed
    /\ ~(t - a.last_mouse_tick_ > kMouseFollowTimeoutMs)
    /\ ~(a.tracking_mode_ = "Auto" /\ a.last_mouse_tick_ <= a.last_caret_target_tick_)
    /\ ScreenToSource(a.mouse_position_).ok

\* rect_center_to_source (app.cpp:635-640); the rectangles are not inverted,
\* so the signed division by 2 is the floor.
RectCenter(rect) ==
    Pt(rect.left + (rect.right - rect.left) \div 2,
       rect.top + (rect.bottom - rect.top) \div 2)

\* use_focus (app.cpp:701-715)
UseFocusOk(a, t, inputs_suppressed) ==
    /\ ~inputs_suppressed
    /\ ~(t - a.last_focus_tick_ > kFocusFollowTimeoutMs)
    /\ ScreenToSource(RectCenter(a.focus_rect_)).ok

\* An Auto mode that asks the pointer before the caret
ChosenSourcePointerFirst(a, t, inputs_suppressed) ==
    CASE a.tracking_mode_ \in {"Auto", "Mouse"} /\ UseMouseOk(a, t, inputs_suppressed) -> "mouse"
      [] a.tracking_mode_ \in {"Auto", "Caret"} /\ UseCaretOk(a, t, inputs_suppressed) -> "caret"
      [] a.tracking_mode_ \in {"Auto", "Focus"} /\ UseFocusOk(a, t, inputs_suppressed) -> "focus"
      [] OTHER -> "none"

\* A Manual mode that follows the signals as Auto mode does
ChosenSourceManualFollows(a, t, inputs_suppressed) ==
    IF a.tracking_mode_ \in {"Auto", "Manual"}
    THEN IF UseCaretOk(a, t, inputs_suppressed) THEN "caret"
         ELSE IF UseMouseOkUngated(a, t, inputs_suppressed) THEN "mouse"
         ELSE IF UseFocusOk(a, t, inputs_suppressed) THEN "focus"
         ELSE "none"
    ELSE "none"

\* The signal the mode's switch adopts (app.cpp:717-737)
ChosenSource(a, t, inputs_suppressed) ==
    CASE a.tracking_mode_ = "Auto" ->
            IF UseCaretOk(a, t, inputs_suppressed) THEN "caret"
            ELSE IF UseMouseOk(a, t, inputs_suppressed) THEN "mouse"
            ELSE IF UseFocusOk(a, t, inputs_suppressed) THEN "focus"
            ELSE "none"
      [] a.tracking_mode_ = "Caret" ->
            IF UseCaretOk(a, t, inputs_suppressed) THEN "caret" ELSE "none"
      [] a.tracking_mode_ = "Mouse" ->
            IF UseMouseOk(a, t, inputs_suppressed) THEN "mouse" ELSE "none"
      [] a.tracking_mode_ = "Focus" ->
            IF UseFocusOk(a, t, inputs_suppressed) THEN "focus" ELSE "none"
      [] OTHER -> "none"

\* target = *caret; target.x += 4.0f (app.cpp:670-675)
CaretTarget(p) ==
    [have_target |-> TRUE, target_is_caret |-> TRUE, source |-> "caret",
     x |-> FAdd(p.x, Px(kCaretWidthShift)), y |-> p.y]

\* target = *mouse, target = *focus (app.cpp:691-697, 708-713)
PointTarget(p, src) ==
    [have_target |-> TRUE, target_is_caret |-> FALSE, source |-> src, x |-> p.x, y |-> p.y]

\* The target of the adopted signal src
TargetOf(a, desc, src) ==
    CASE src = "caret" -> CaretTarget(ScreenToSource(a.caret_position_))
      [] src = "mouse" -> PointTarget(ScreenToSource(a.mouse_position_), src)
      [] src = "focus" -> PointTarget(ScreenToSource(RectCenter(a.focus_rect_)), src)
      [] OTHER -> NoTarget(desc)

\* The target of a resolve: its point, have_target and target_is_caret
SelectTarget(a, desc, t, inputs_suppressed) ==
    TargetOf(a, desc, ChosenSource(a, t, inputs_suppressed))

\* last_caret_target_tick_ after the switch: use_caret stamps it, use_mouse
\* clears it in Auto mode.
CaretTargetTick(a, src, t) ==
    IF src = "caret" THEN t
    ELSE IF src = "mouse" /\ a.tracking_mode_ = "Auto" THEN 0
    ELSE a.last_caret_target_tick_

\* view_width, view_height and their halves (app.cpp:739-746)
ViewWidth(desc, zoom) == Min(FDivInt(desc.Width, ZoomDen, zoom), Px(desc.Width))

ViewHeight(desc, zoom) == Min(FDivInt(desc.Height, ZoomDen, zoom), Px(desc.Height))

HalfW(desc, zoom) == ViewWidth(desc, zoom) \div 2

HalfH(desc, zoom) == ViewHeight(desc, zoom) \div 2

\* putty_anchor_source_ = *bottom_left_source (app.cpp:754-757)
CaptureAnchor(a, bottom_left_source) ==
    IF bottom_left_source.ok
    THEN [a EXCEPT !.putty_anchor_source_ = [x |-> bottom_left_source.x,
                                             y |-> bottom_left_source.y],
                   !.has_putty_anchor_ = TRUE]
    ELSE a

\* An anchor taken at the window's top-left corner
UpdateAnchorTopLeft(a, fg) ==
    IF (a.end_key_down_ \/ a.end_alignment_active_) /\ fg.app = "putty"
    THEN CaptureAnchor(a, ScreenToSource(Pt(fg.rect.left, fg.rect.top)))
    ELSE a

\* An anchor that is dropped when the foreground window does not match
UpdateAnchorDropping(a, fg) ==
    IF a.end_key_down_ \/ a.end_alignment_active_
    THEN IF fg.app = "putty"
         THEN CaptureAnchor(a, ScreenToSource(Pt(fg.rect.left,
                                                 Max(fg.rect.top, fg.rect.bottom - 1))))
         ELSE [a EXCEPT !.has_putty_anchor_ = FALSE]
    ELSE a

\* The terminal anchor capture (app.cpp:748-759); the foreground window
\* matches { L"putty" } when fg.app = "putty"
UpdateAnchor(a, fg) ==
    IF (a.end_key_down_ \/ a.end_alignment_active_) /\ fg.app = "putty"
    THEN CaptureAnchor(a, ScreenToSource(Pt(fg.rect.left,
                                            Max(fg.rect.top, fg.rect.bottom - 1))))
    ELSE a

\* The alignment flag (app.cpp:761-767)
UpdateAlignmentFlag(a, t) ==
    IF a.end_key_down_
    THEN IF ~a.end_alignment_active_
            /\ t - a.end_press_tick_ >= kEndHoldThresholdMs
            /\ a.has_putty_anchor_
         THEN [a EXCEPT !.end_alignment_active_ = TRUE]
         ELSE a
    ELSE [a EXCEPT !.end_alignment_active_ = FALSE]

UpdateEndAlignment(a, t, fg) == UpdateAlignmentFlag(UpdateAnchor(a, fg), t)

\* The smoothed step of a non-caret target (app.cpp:786-803)
\* current_center_ = the limited point (app.cpp:801-802)
StepLimited(l) == [l.a EXCEPT !.current_center_x_ = l.x, !.current_center_y_ = l.y]

\* distance > dead_zone_pixels_ (app.cpp:789)
BeyondDeadZone(dx, dy) == DistanceGt(dx, dy, dead_zone_pixels_, 8)

\* A step taken whatever the distance
StepByAlways(a, dx, dy, t) ==
    StepLimited(ApplyClickMovementLimit(RecordJump(a, dx, dy, t),
                    FAdd(a.current_center_x_, FMulSmooth(dx)),
                    FAdd(a.current_center_y_, FMulSmooth(dy)), t))

\* The step by the offset dx, dy to the target (app.cpp:789-803)
StepBy(a, dx, dy, t) ==
    IF ~BeyondDeadZone(dx, dy) THEN a
    ELSE StepLimited(ApplyClickMovementLimit(RecordJump(a, dx, dy, t),
                         FAdd(a.current_center_x_, FMulSmooth(dx)),
                         FAdd(a.current_center_y_, FMulSmooth(dy)), t))

SmoothStep(a, tx, ty, t) ==
    StepBy(a, FSub(tx, a.current_center_x_), FSub(ty, a.current_center_y_), t)

\* A caret target approached like any other
SnapCaretSmoothed(a, tg, t) == SmoothStep(a, tg.x, tg.y, t)

\* SnapCenterTo(target.x, target.y, now, true): the caret's hard snap
\* (app.cpp:784 and 1663)
SnapCaret(a, tg, t) == SnapCenterTo(a, tg.x, tg.y, t, TRUE)

\* A resolve that snaps to the target whatever it is, the default one included
MoveCenterToTarget(a, tg, desc, t) == SnapCenterTo(a, tg.x, tg.y, t, FALSE)

\* The terminal pin of the center (app.cpp:769-776)
PinCenter(a, desc) ==
    LET fw == Px(desc.Width)
        fh == Px(desc.Height)
        vw == ViewWidth(desc, a.zoom_)
        vh == ViewHeight(desc, a.zoom_)
    IN  [a EXCEPT
            !.current_center_x_ =
                FAdd(Clamp(a.putty_anchor_source_.x, 0, FSub(fw, vw)), vw \div 2),
            !.current_center_y_ =
                FSub(Clamp(a.putty_anchor_source_.y, vh, fh), vh \div 2),
            !.has_center_ = TRUE,
            !.messenger_zone_active_ = FALSE]

\* A resolve in which an adopted target still moves the pinned center
MoveCenterPinThenStep(a, tg, desc, t) ==
    IF a.end_alignment_active_ /\ a.has_putty_anchor_
    THEN IF ~tg.have_target THEN PinCenter(a, desc)
         ELSE IF tg.target_is_caret THEN SnapCaret(PinCenter(a, desc), tg, t)
         ELSE SmoothStep(PinCenter(a, desc), tg.x, tg.y, t)
    ELSE IF ~a.has_center_ THEN SnapCenterTo(a, tg.x, tg.y, t, FALSE)
    ELSE IF ~tg.have_target THEN a
    ELSE IF tg.target_is_caret THEN SnapCaret(a, tg, t)
    ELSE SmoothStep(a, tg.x, tg.y, t)

\* The center after the anchor, snap or smoothing step (app.cpp:768-806)
MoveCenter(a, tg, desc, t) ==
    IF a.end_alignment_active_ /\ a.has_putty_anchor_ THEN PinCenter(a, desc)
    ELSE IF ~a.has_center_ THEN SnapCenterTo(a, tg.x, tg.y, t, FALSE)
    ELSE IF ~tg.have_target THEN a
    ELSE IF tg.target_is_caret THEN SnapCaret(a, tg, t)
    ELSE SmoothStep(a, tg.x, tg.y, t)

\* A reply lock that clamps nothing
MessengerClampOff(a, desc) == a

\* The reply-composition clamp (app.cpp:808-819)
MessengerClamp(a, desc) ==
    IF ~a.messenger_zone_active_ THEN a
    ELSE
    LET z == a.messenger_zone_source_
        min_x == Max(z.left, HalfW(desc, a.zoom_))
        max_x == Min(z.right, FSub(Px(desc.Width), HalfW(desc, a.zoom_)))
        min_y == Max(z.top, HalfH(desc, a.zoom_))
        max_y == Min(z.bottom, FSub(Px(desc.Height), HalfH(desc, a.zoom_)))
    IN  IF min_x <= max_x /\ min_y <= max_y
        THEN [a EXCEPT !.current_center_x_ = Clamp(@, min_x, max_x),
                       !.current_center_y_ = Clamp(@, min_y, max_y)]
        ELSE [a EXCEPT !.messenger_zone_active_ = FALSE]

\* A resolve that leaves the center where the step put it
FrameClampOff(a, desc) == a

\* The clamp that keeps the view inside the frame (app.cpp:821-822)
FrameClamp(a, desc) ==
    [a EXCEPT
       !.current_center_x_ = Clamp(@, HalfW(desc, a.zoom_),
                                   FSub(Px(desc.Width), HalfW(desc, a.zoom_))),
       !.current_center_y_ = Clamp(@, HalfH(desc, a.zoom_),
                                   FSub(Px(desc.Height), HalfH(desc, a.zoom_)))]

\* view_state_.source_region (app.cpp:824-830)
SourceRegion(a, desc) ==
    LET left == FSub(a.current_center_x_, HalfW(desc, a.zoom_))
        top  == FSub(a.current_center_y_, HalfH(desc, a.zoom_))
    IN  Rect(Floor(left), Floor(top),
             Ceil(FAdd(left, ViewWidth(desc, a.zoom_))),
             Ceil(FAdd(top, ViewHeight(desc, a.zoom_))))

\* The cursor fields and the region of the resolved center (app.cpp:625-628,
\* 648-652, 824-831)
PublishViewState(a, cursor, desc) ==
    [a EXCEPT !.view_state_ =
        [source_region |-> SourceRegion(a, desc), zoom |-> a.zoom_,
         cursor_visible |-> cursor.ok, cursor_x |-> cursor.x, cursor_y |-> cursor.y]]

\* inputs_suppressed (app.cpp:646)
\* Inputs suppressed only while the alignment is active
InputsSuppressedWhilePinned(a, t) == a.end_alignment_active_

InputsSuppressed(a, t) == t < a.end_ignore_inputs_until_ \/ a.end_alignment_active_

\* The resolve once the target tg is selected (app.cpp:739-831)
ResolveTo(a, tg, desc, t, fg) ==
    PublishViewState(
        FrameClamp(
            MessengerClamp(
                MoveCenter(
                    UpdateEndAlignment(
                        [a EXCEPT !.last_caret_target_tick_ = CaretTargetTick(a, tg.source, t)],
                        t, fg),
                    tg, desc, t),
                desc),
            desc),
        ScreenToSource(a.mouse_position_), desc)

\* The resolve after the stale anchor is dropped (app.cpp:646-831)
ResolveFrom(a, desc, t, fg) ==
    ResolveTo(a, SelectTarget(a, desc, t, InputsSuppressed(a, t)), desc, t, fg)

\* A resolve that leaves the view of an earlier tick
UpdateViewStateSkipped(a, desc, t, fg) == a

UpdateViewState(a, desc, t, fg) ==
    IF desc.Width = 0 \/ desc.Height = 0 THEN a
    ELSE ResolveFrom(IF ~a.end_key_down_ /\ t >= a.end_ignore_inputs_until_
                     THEN [a EXCEPT !.has_putty_anchor_ = FALSE] ELSE a,
                     desc, t, fg)

(***************************************************************************)
(* Signal, wheel, click and key handlers (app.cpp:217-358, 1408-1455)      *)
(***************************************************************************)
\* A caret callback that pushes its point at the view
OnCaretPushing(a, pt, t) ==
    [a EXCEPT !.caret_position_ = pt, !.last_caret_tick_ = t, !.has_center_ = FALSE]

\* The caret callback (app.cpp:217-221)
OnCaret(a, pt, t) == [a EXCEPT !.caret_position_ = pt, !.last_caret_tick_ = t]

\* A mouse callback that leaves the click lock alone
OnMouseMoveKeepsLock(a, pt, t) ==
    LET dx == Abs(pt.x - a.messenger_anchor_.x)
        dy == Abs(pt.y - a.messenger_anchor_.y)
    IN  [a EXCEPT !.mouse_position_ = pt,
                  !.last_mouse_tick_ = t,
                  !.messenger_zone_active_ =
                      IF @ /\ (dx > 10 \/ dy > 10) THEN FALSE ELSE @]

\* A mouse callback that ends the reply lock only beyond 10 px on both axes
OnMouseMoveBothAxes(a, pt, t) ==
    LET moved == pt.x # a.mouse_position_.x \/ pt.y # a.mouse_position_.y
        dx == Abs(pt.x - a.messenger_anchor_.x)
        dy == Abs(pt.y - a.messenger_anchor_.y)
    IN  [a EXCEPT !.mouse_position_ = pt,
                  !.last_mouse_tick_ = t,
                  !.click_lock_active_ = IF moved THEN FALSE ELSE @,
                  !.messenger_zone_active_ =
                      IF @ /\ (dx > 10 /\ dy > 10) THEN FALSE ELSE @]

\* The mouse callback (app.cpp:222-238)
OnMouseMove(a, pt, t) ==
    LET moved == pt.x # a.mouse_position_.x \/ pt.y # a.mouse_position_.y
        dx == Abs(pt.x - a.messenger_anchor_.x)
        dy == Abs(pt.y - a.messenger_anchor_.y)
    IN  [a EXCEPT !.mouse_position_ = pt,
                  !.last_mouse_tick_ = t,
                  !.click_lock_active_ = IF moved THEN FALSE ELSE @,
                  !.messenger_zone_active_ =
                      IF @ /\ (dx > 10 \/ dy > 10) THEN FALSE ELSE @]

\* The focus callback (app.cpp:239-243)
OnFocus(a, rect, t) == [a EXCEPT !.focus_rect_ = rect, !.last_focus_tick_ = t]

\* A zoom step that is not clamped
ChangeZoomUnclamped(a, delta) ==
    IF delta = 0 THEN a ELSE [a EXCEPT !.zoom_ = a.zoom_ + delta, !.has_center_ = FALSE]

\* App::ChangeZoom; delta in quarters.  A change below 0.001 is no change.
ChangeZoom(a, delta) ==
    LET new_zoom == Clamp(a.zoom_ + delta, kMinZoom, kMaxZoom)
    IN  IF new_zoom = a.zoom_ THEN a
        ELSE [a EXCEPT !.zoom_ = new_zoom, !.has_center_ = FALSE]

\* A wheel callback that asks for Ctrl alone
OnWheelCtrlOnly(a, delta) ==
    IF ~a.control_down_ THEN [a |-> a, consumed |-> FALSE]
    ELSE IF delta = 0 THEN [a |-> a, consumed |-> TRUE]
    ELSE [a |-> ChangeZoom(a, kZoomStep * (delta \div WHEEL_DELTA)), consumed |-> TRUE]

\* The wheel callback (app.cpp:244-255): the app after it and whether the
\* event is consumed.  delta is a whole number of notches times WHEEL_DELTA.
OnWheel(a, delta) ==
    IF ~a.control_down_ \/ ~a.alt_down_ THEN [a |-> a, consumed |-> FALSE]
    ELSE IF delta = 0 THEN [a |-> a, consumed |-> TRUE]
    ELSE [a |-> ChangeZoom(a, kZoomStep * (delta \div WHEEL_DELTA)), consumed |-> TRUE]

\* std::lround(n * 0.1) and std::lround(n * 0.25) for n >= 0
Lround10(n) == (n + 5) \div 10

Lround4(n) == (n + 2) \div 4

\* The reply-composition zone of a click (app.cpp:1423-1454)
MessengerZone(a, pt, fg) ==
    LET b == SourceMonitor.bounds
        monitor_width == b.right - b.left
        monitor_height == b.bottom - b.top
        strip_top == Max(b.bottom - Max(Lround10(monitor_height), 1), b.top)
        restricted_left == Clamp(b.left + Lround4(monitor_width), b.left, b.right - 1)
        top_left == ScreenToSource(Pt(restricted_left, strip_top))
        bottom_right == ScreenToSource(Pt(b.right - 1, b.bottom - 1))
    IN  IF /\ fg.app = "messenger"
           /\ monitor_width > 0 /\ monitor_height > 0
           /\ pt.y >= strip_top /\ pt.y < b.bottom /\ pt.x >= b.left /\ pt.x < b.right
           /\ b.right > restricted_left /\ b.bottom > strip_top
           /\ top_left.ok /\ bottom_right.ok
        THEN [a EXCEPT !.messenger_zone_source_ =
                           Rect(top_left.x, top_left.y, bottom_right.x, bottom_right.y),
                       !.messenger_zone_active_ = TRUE,
                       !.messenger_anchor_ = pt]
        ELSE a

\* App::OnMouseLeftClick
OnMouseLeftClick(a, pt, t, fg) ==
    MessengerZone([a EXCEPT !.mouse_position_ = pt,
                            !.last_click_position_ = pt,
                            !.last_click_tick_ = t,
                            !.has_last_click_ = TRUE,
                            !.click_lock_active_ = TRUE,
                            !.messenger_zone_active_ = FALSE,
                            !.last_click_source_ = ScreenToSource(pt)],
                  pt, fg)

\* App::ClearCenterHistory
ClearCenterHistory(a) ==
    [a EXCEPT !.has_center_ = FALSE, !.has_previous_center_ = FALSE,
              !.previous_center_saved_tick_ = 0, !.has_last_click_ = FALSE,
              !.click_lock_active_ = FALSE, !.last_click_tick_ = 0,
              !.last_click_source_ = NoPoint, !.messenger_zone_active_ = FALSE]

\* App::StopMagnifier
StopMagnifier(a) == ClearCenterHistory([a EXCEPT !.magnifier_active_ = FALSE])

\* App::RequestExit: StopMagnifier, then PostQuitMessage
RequestExit(a) == [StopMagnifier(a) EXCEPT !.quit_posted = TRUE]

kInactivityRestartMs == 60000

\* App::MarkUserActivity
MarkUserActivity(a, t) == [a EXCEPT !.last_user_activity_tick_ = t]

\* App::RestartApplication; spawned: CreateProcessW starts the new instance
RestartApplication(a, t, spawned) ==
    IF a.restart_pending_ THEN a
    ELSE IF spawned
         THEN [StopMagnifier([a EXCEPT !.restart_pending_ = TRUE,
                                       !.last_user_activity_tick_ = t])
               EXCEPT !.quit_posted = TRUE]
         ELSE [a EXCEPT !.restart_pending_ = FALSE, !.last_user_activity_tick_ = t]

\* now - last_user_activity_tick_ >= kInactivityRestartMs (app.cpp:1365)
Inactive(a, t) ==
    /\ ~a.restart_pending_
    /\ a.last_user_activity_tick_ # 0
    /\ t - a.last_user_activity_tick_ >= kInactivityRestartMs

\* App::CheckInactivity
CheckInactivity(a, t, spawned) ==
    IF a.restart_pending_ THEN a
    ELSE IF a.last_user_activity_tick_ = 0 THEN MarkUserActivity(a, t)
    ELSE IF t - a.last_user_activity_tick_ >= kInactivityRestartMs
         THEN RestartApplication(a, t, spawned)
         ELSE a

\* A snap to the caret that is not clamped to the frame
CenterOnCaretNowUnclamped(a, desc, t) ==
    IF \/ ~a.magnifier_active_
       \/ a.tracking_mode_ = "Manual"
       \/ desc.Width = 0 \/ desc.Height = 0
       \/ ~PointInRect(SourceMonitor.bounds, a.caret_position_)
    THEN a
    ELSE [SnapCaret(a, CaretTarget(ScreenToSource(a.caret_position_)), t)
          EXCEPT !.last_caret_target_tick_ = t]

\* App::CenterOnCaretNow
CenterOnCaretNow(a, desc, t) ==
    IF \/ ~a.magnifier_active_
       \/ a.tracking_mode_ = "Manual"
       \/ desc.Width = 0 \/ desc.Height = 0
       \/ ~PointInRect(SourceMonitor.bounds, a.caret_position_)
    THEN a
    ELSE FrameClamp(
             [SnapCaret(a, CaretTarget(ScreenToSource(a.caret_position_)), t)
              EXCEPT !.last_caret_target_tick_ = t], desc)

\* tracking_->RequestCaretRefresh(); CenterOnCaretNow(), unless the mode is
\* Manual.  refresh is the caret the synchronous UI Automation query reports
\* through the caret callback, or NoPoint when it reports none.
RefreshAndCenter(a, refresh, desc, t) ==
    IF a.tracking_mode_ = "Manual" THEN a
    ELSE CenterOnCaretNow(IF refresh.ok THEN OnCaret(a, Pt(refresh.x, refresh.y), t) ELSE a,
                          desc, t)

PureModifiers == {"CONTROL", "MENU", "LWIN", "SHIFT"}

Keys == PureModifiers \cup {"END", "A", "Z"}

\* An END branch whose key-up leaves the alignment flag to the next tick
OnEndKeyLazy(a, key_down, t) ==
    IF key_down /\ ~a.end_key_down_
    THEN [a EXCEPT !.end_key_down_ = TRUE, !.end_press_tick_ = t,
                   !.end_alignment_active_ = FALSE, !.end_ignore_inputs_until_ = 0,
                   !.has_putty_anchor_ = FALSE]
    ELSE IF ~key_down /\ a.end_key_down_
    THEN [a EXCEPT !.end_key_down_ = FALSE,
                   !.end_ignore_inputs_until_ = t + kEndIgnoreCursorMs]
    ELSE a

\* The END branch of the key callback (app.cpp:323-335)
OnEndKey(a, key_down, t) ==
    IF key_down /\ ~a.end_key_down_
    THEN [a EXCEPT !.end_key_down_ = TRUE, !.end_press_tick_ = t,
                   !.end_alignment_active_ = FALSE, !.end_ignore_inputs_until_ = 0,
                   !.has_putty_anchor_ = FALSE]
    ELSE IF ~key_down /\ a.end_key_down_
    THEN [a EXCEPT !.end_key_down_ = FALSE, !.end_alignment_active_ = FALSE,
                   !.end_ignore_inputs_until_ = t + kEndIgnoreCursorMs]
    ELSE a

\* The modifier and END bookkeeping of the key callback
KeyState(a, vk, key_down, t) ==
    CASE vk = "CONTROL" -> [a EXCEPT !.control_down_ = key_down]
      [] vk = "MENU" -> [a EXCEPT !.alt_down_ = key_down]
      [] vk = "END" -> OnEndKey(a, key_down, t)
      [] OTHER -> a

\* The caret refresh and snap of a Win key-up or a non-modifier key-down
KeyCenter(a, vk, key_down, refresh, desc, t) ==
    IF (vk = "LWIN" /\ ~key_down) \/ (key_down /\ vk \notin PureModifiers)
    THEN RefreshAndCenter(a, refresh, desc, t) ELSE a

\* Ctrl+Alt+Z: RequestExit
KeyExit(a, vk, key_down) ==
    IF key_down /\ a.control_down_ /\ a.alt_down_ /\ vk = "Z" THEN RequestExit(a) ELSE a

\* The key callback (app.cpp:261-358); key_down, else key_up
OnKey(a, vk, key_down, refresh, desc, t) ==
    KeyExit(KeyCenter(KeyState(a, vk, key_down, t), vk, key_down, refresh, desc, t),
            vk, key_down)

\* A cycle that passes over Focus mode
CycleTrackingModeSkipFocus(a) ==
    [a EXCEPT !.tracking_mode_ =
        CASE @ = "Auto" -> "Caret"
          [] @ = "Caret" -> "Mouse"
          [] @ = "Mouse" -> "Manual"
          [] @ = "Focus" -> "Manual"
          [] OTHER -> "Auto"]

\* App::CycleTrackingMode with App::SetTrackingMode
CycleTrackingMode(a) ==
    [a EXCEPT !.tracking_mode_ =
        CASE @ = "Auto" -> "Caret"
          [] @ = "Caret" -> "Mouse"
          [] @ = "Mouse" -> "Focus"
          [] @ = "Focus" -> "Manual"
          [] OTHER -> "Auto"]

(***************************************************************************)
(* MagnifierWindow (magnifier_window.cpp): a COM pointer is TRUE while it  *)
(* holds an object                                                         *)
(***************************************************************************)
kStatusBadgeDurationMs == 2000

ZoomOverlayDurationMs == 1000       \* ShowLayoutOverlay(text, 1000), app.cpp:928

LayoutOverlayDurationMs == 2000     \* ShowLayoutOverlay(code, 2000), app.cpp:981

\* The members after construction (magnifier_window.h)
MagnifierWindowInit ==
    [hwnd_ |-> FALSE, swap_chain_ |-> FALSE, rtv_ |-> FALSE,
     pointer_vertex_buffer_ |-> FALSE,
     window_size_ |-> [cx |-> 0, cy |-> 0],
     cursor_visible_ |-> FALSE, cursor_texture_ |-> FALSE, cursor_srv_ |-> FALSE,
     overlay_texture_ |-> FALSE, overlay_srv_ |-> FALSE, overlay_expire_tick_ |-> 0,
     status_overlay_texture_ |-> FALSE, status_overlay_srv_ |-> FALSE,
     status_overlay_expire_tick_ |-> 0]

\* How far MagnifierWindow::Initialize gets: the window, the swap chain and
\* the pipeline are created in this order and the first failure returns false
InitializeOutcomes == {"ok", "no_window", "no_swap_chain", "no_pipeline"}

\* MagnifierWindow::Initialize and AttachToMonitor on a monitor of the size
MagnifierInitialize(m, how, size) ==
    IF how = "no_window" THEN m
    ELSE IF how = "no_swap_chain" THEN [m EXCEPT !.hwnd_ = TRUE]
    ELSE IF how = "no_pipeline"
         THEN [m EXCEPT !.hwnd_ = TRUE, !.swap_chain_ = TRUE, !.rtv_ = TRUE]
    ELSE [m EXCEPT !.hwnd_ = TRUE, !.swap_chain_ = TRUE, !.rtv_ = TRUE,
                   !.pointer_vertex_buffer_ = TRUE,
                   !.window_size_ = [cx |-> size.Width, cy |-> size.Height]]

\* MagnifierWindow::ShowLayoutOverlay: empty is text.empty(), created is
\* what CreateOverlayTexture returns for a text that is not empty
ShowLayoutOverlay(m, empty, duration_ms, t, created) ==
    IF empty \/ duration_ms = 0
    THEN [m EXCEPT !.overlay_srv_ = FALSE, !.overlay_texture_ = FALSE,
                   !.overlay_expire_tick_ = 0]
    ELSE IF ~created
    THEN [m EXCEPT !.overlay_srv_ = FALSE, !.overlay_texture_ = FALSE]
    ELSE [m EXCEPT !.overlay_srv_ = TRUE, !.overlay_texture_ = TRUE,
                   !.overlay_expire_tick_ = t + duration_ms]

\* MagnifierWindow::SetStatusBadge
SetStatusBadge(m, empty, duration_ms, t, created) ==
    IF empty \/ duration_ms = 0 \/ ~created
    THEN [m EXCEPT !.status_overlay_srv_ = FALSE, !.status_overlay_texture_ = FALSE,
                   !.status_overlay_expire_tick_ = 0]
    ELSE [m EXCEPT !.status_overlay_srv_ = TRUE, !.status_overlay_texture_ = TRUE,
                   !.status_overlay_expire_tick_ = t + duration_ms]

\* App::ShowStatusMessage and UpdateStatusOverlay: a duration of 0 stands
\* for kStatusBadgeDurationMs
ShowStatusMessage(m, empty, duration_ms, t, created) ==
    SetStatusBadge(m, empty,
                   IF empty THEN 0
                   ELSE IF duration_ms # 0 THEN duration_ms ELSE kStatusBadgeDurationMs,
                   t, created)

\* MagnifierWindow::DrawTexturedQuad draws when it has the view and the
\* vertex buffer, the window has a size and Map succeeds
DrawTexturedQuad(m, srv, mapped) ==
    /\ srv /\ m.pointer_vertex_buffer_
    /\ m.window_size_.cx > 0 /\ m.window_size_.cy > 0
    /\ mapped

\* A status badge that is drawn while it is held, whatever the time
DrawStatusOverlayKept(m, t, mapped) ==
    [m |-> m, status |-> DrawTexturedQuad(m, m.status_overlay_srv_, mapped)]

\* MagnifierWindow::DrawStatusOverlay: the window after it and whether the
\* badge was drawn
DrawStatusOverlay(m, t, mapped) ==
    IF m.status_overlay_expire_tick_ # 0 /\ t >= m.status_overlay_expire_tick_
    THEN [m |-> [m EXCEPT !.status_overlay_expire_tick_ = 0,
                          !.status_overlay_srv_ = FALSE,
                          !.status_overlay_texture_ = FALSE],
          status |-> FALSE]
    ELSE [m |-> m,
          status |-> /\ m.status_overlay_srv_
                     /\ m.window_size_.cx > 0 /\ m.window_size_.cy > 0
                     /\ DrawTexturedQuad(m, m.status_overlay_srv_, mapped)]

\* A layout overlay that does not hide the status badge
DrawLayoutOverlayBoth(m, t, mapped) ==
    LET s == DrawStatusOverlay(m, t, mapped)
        held == /\ m.overlay_srv_
                /\ (m.overlay_expire_tick_ = 0 \/ t < m.overlay_expire_tick_)
    IN  [m |-> s.m, layout |-> DrawTexturedQuad(m, held, mapped), status |-> s.status]

\* MagnifierWindow::DrawLayoutOverlay: layout_drawn is set once the quad of
\* the layout overlay is issued, whether or not DrawTexturedQuad draws it
DrawLayoutOverlay(m, t, mapped) ==
    LET expired == /\ m.overlay_srv_
                   /\ m.overlay_expire_tick_ # 0 /\ t >= m.overlay_expire_tick_
        m1 == IF expired
              THEN [m EXCEPT !.overlay_srv_ = FALSE, !.overlay_texture_ = FALSE,
                             !.overlay_expire_tick_ = 0]
              ELSE m
        layout_drawn == /\ m.overlay_srv_ /\ ~expired
                        /\ m.window_size_.cx > 0 /\ m.window_size_.cy > 0
        s == DrawStatusOverlay(m1, t, mapped)
    IN  IF layout_drawn
        THEN [m |-> m1, layout |-> DrawTexturedQuad(m1, m1.overlay_srv_, mapped),
              status |-> FALSE]
        ELSE [m |-> s.m, layout |-> FALSE, status |-> s.status]

\* What MagnifierWindow::UpdateCursorTexture meets: no cursor to show, the
\* cursor it already holds or a new one it builds, a failure before the old
\* texture is dropped, or one after
CursorOutcomes == {"hidden", "ok", "failed", "failed_dropped"}

\* MagnifierWindow::UpdateCursorTexture
UpdateCursorTexture(m, cursor) ==
    CASE cursor = "ok" ->
           [m |-> [m EXCEPT !.cursor_visible_ = TRUE, !.cursor_texture_ = TRUE,
                            !.cursor_srv_ = TRUE],
            ok |-> TRUE]
      [] cursor = "failed_dropped" ->
           [m |-> [m EXCEPT !.cursor_visible_ = FALSE, !.cursor_texture_ = FALSE,
                            !.cursor_srv_ = FALSE],
            ok |-> FALSE]
      [] OTHER -> [m |-> [m EXCEPT !.cursor_visible_ = FALSE], ok |-> FALSE]

\* MagnifierWindow::DrawCursor draws the glyph when the cursor lies in the
\* source region (its hotspot lies inside the glyph, so the glyph then
\* meets the window)
DrawCursor(m, state, mapped) ==
    LET r == state.source_region
    IN  /\ m.cursor_visible_ /\ m.cursor_srv_ /\ m.pointer_vertex_buffer_
        /\ r.right - r.left > 0 /\ r.bottom - r.top > 0
        /\ state.cursor_x >= Px(r.left) /\ state.cursor_x <= Px(r.right)
        /\ state.cursor_y >= Px(r.top) /\ state.cursor_y <= Px(r.bottom)
        /\ DrawTexturedQuad(m, m.cursor_srv_, mapped)

\* Nothing of a frame has been drawn
NotDrawn == [base |-> FALSE, cursor |-> FALSE, layout |-> FALSE, status |-> FALSE,
             swapped |-> FALSE, layout_released |-> FALSE, status_released |-> FALSE]

\* What a present meets: whether the view of the frame's texture is created,
\* what UpdateCursorTexture meets and whether Map succeeds for the glyph and
\* for the badge
PresentOutcomes ==
    [srv : BOOLEAN, cursor : CursorOutcomes, cursor_mapped : BOOLEAN,
     badge_mapped : BOOLEAN]

\* Every call of the present succeeds
PresentOk == [srv |-> TRUE, cursor |-> "ok", cursor_mapped |-> TRUE,
              badge_mapped |-> TRUE]

\* MagnifierWindow::PresentFrame from the base quad on (lines 174-188):
\* the window after it and what it drew; swapped is swap_chain_->Present,
\* layout_released and status_released that the present dropped the
\* badge's view
DrawFrame(m, state, t, o) ==
    LET u == UpdateCursorTexture(m, o.cursor)
        m1 == IF state.cursor_visible THEN u.m
              ELSE [m EXCEPT !.cursor_visible_ = FALSE]
        l == DrawLayoutOverlay(m1, t, o.badge_mapped)
    IN  [m |-> l.m,
         drawn |-> [base |-> TRUE,
                    cursor |-> /\ state.cursor_visible /\ u.ok
                               /\ DrawCursor(m1, state, o.cursor_mapped),
                    layout |-> l.layout, status |-> l.status,
                    swapped |-> TRUE,
                    layout_released |-> m.overlay_srv_ /\ ~l.m.overlay_srv_,
                    status_released |-> /\ m.status_overlay_srv_
                                        /\ ~l.m.status_overlay_srv_]]

\* A present that gives the frame up when any call fails
PresentFrameAllOrNothing(m, state, t, o) ==
    IF ~m.swap_chain_ \/ o # PresentOk THEN [m |-> m, drawn |-> NotDrawn]
    ELSE DrawFrame(m, state, t, o)

\* MagnifierWindow::PresentFrame
PresentFrame(m, state, t, o) ==
    IF ~m.swap_chain_ \/ ~o.srv THEN [m |-> m, drawn |-> NotDrawn]
    ELSE DrawFrame(m, state, t, o)

\* MagnifierWindow::Shutdown
MagnifierShutdown(m) ==
    [m EXCEPT !.swap_chain_ = FALSE, !.rtv_ = FALSE,
              !.overlay_texture_ = FALSE, !.overlay_srv_ = FALSE,
              !.status_overlay_texture_ = FALSE, !.status_overlay_srv_ = FALSE,
              !.status_overlay_expire_tick_ = 0, !.hwnd_ = FALSE]

\* A Shutdown that resets every view before what it is a view of
MagnifierShutdownLogViewsFirst(m) ==
    Held(m.rtv_, "rtv_") \o Held(m.swap_chain_, "swap_chain_")
        \o Held(m.overlay_srv_, "overlay_srv_")
        \o Held(m.overlay_texture_, "overlay_texture_")
        \o Held(m.status_overlay_srv_, "status_overlay_srv_")
        \o Held(m.status_overlay_texture_, "status_overlay_texture_")
        \o Held(m.hwnd_, "hwnd_")

\* What MagnifierWindow::Shutdown releases, in its order
MagnifierShutdownLog(m) ==
    Held(m.swap_chain_, "swap_chain_") \o Held(m.rtv_, "rtv_")
        \o Held(m.overlay_texture_, "overlay_texture_")
        \o Held(m.overlay_srv_, "overlay_srv_")
        \o Held(m.status_overlay_texture_, "status_overlay_texture_")
        \o Held(m.status_overlay_srv_, "status_overlay_srv_")
        \o Held(m.hwnd_, "hwnd_")

\* What the destructor releases: Shutdown, then the members that Shutdown
\* leaves, the last declared first (magnifier_window.h:57-83)
MagnifierDestroyLog(m) ==
    MagnifierShutdownLog(m)
        \o Held(m.cursor_srv_, "cursor_srv_") \o Held(m.cursor_texture_, "cursor_texture_")
        \o Held(m.pointer_vertex_buffer_, "pointer_vertex_buffer_")

\* What MagnifierWindow::ShowLayoutOverlay and SetStatusBadge release for an
\* empty text, in their order
ClearBadgesLog(m) ==
    Held(m.overlay_srv_, "overlay_srv_") \o Held(m.overlay_texture_, "overlay_texture_")
        \o Held(m.status_overlay_srv_, "status_overlay_srv_")
        \o Held(m.status_overlay_texture_, "status_overlay_texture_")

\* The size of the magnifier monitor, which the window covers
MagnifierMonitorSize == [Width |-> 1920, Height |-> 1080]

\* The window after App::ChangeZoom: a zoom that changed is shown for a
\* second while the magnifier is active (app.cpp:924-929)
ChangeZoomOverlay(a, m, delta, t, created) ==
    IF ChangeZoom(a, delta).zoom_ = a.zoom_ \/ ~a.magnifier_active_ THEN m
    ELSE ShowLayoutOverlay(m, FALSE, ZoomOverlayDurationMs, t, created)

\* The window after App::SetTrackingMode (app.cpp:911)
SetTrackingModeBadge(m, t, created) ==
    ShowStatusMessage(m, FALSE, kStatusBadgeDurationMs, t, created)

\* The window after App::StopMagnifier (app.cpp:571, 575)
StopMagnifierWindow(m, t) ==
    ShowStatusMessage(ShowLayoutOverlay(m, TRUE, 0, t, TRUE), TRUE, 0, t, TRUE)

\* The window after App::ConfigureForCurrentMonitors, once
\* InitializeForMonitor has succeeded, and the startup badge of
\* App::StartMagnifier when the window is initialized (app.cpp:534-543, 562)
StartMagnifierWindow(m, how, t, created) ==
    LET w == MagnifierInitialize(MagnifierWindowInit, how, MagnifierMonitorSize)
    IN  IF how = "ok" THEN ShowStatusMessage(w, FALSE, 2000, t, created) ELSE w

\* The window after App::CheckKeyboardLayout when the layout has changed
\* (app.cpp:980-982)
CheckKeyboardLayout(a, m, changed, t, created) ==
    IF changed /\ a.magnifier_active_
    THEN ShowLayoutOverlay(m, FALSE, LayoutOverlayDurationMs, t, created)
    ELSE m

(***************************************************************************)
(* State                                                                   *)
(***************************************************************************)
VARIABLES
    app,        \* the App members
    capture,    \* the CaptureEngine members
    now,        \* GetTickCount64()
    foreground, \* the foreground window
    magnifier,  \* the MagnifierWindow members
    tick        \* what the last App::Update did

vars == <<app, capture, now, foreground, magnifier, tick>>

MaxOutage == 3          \* consecutive failed ticks are counted up to here

\* fresh: the last step was a tick.  acquire1, acquire2: what AcquireNextFrame
\* returned ("none": not called).  torn: the first AcquireFrame left no
\* session, no staging texture and NeedsReinitialize() true.  reinit: how
\* Reinitialize ended ("none": not invoked); reinit_needs: NeedsReinitialize()
\* when it returned.  source: the signal the resolve adopted.  outage: the consecutive ticks, this one
\* included, whose Reinitialize failed; recovered: the outage a successful
\* Reinitialize of this tick ended.  from: the center the resolve started
\* from.  streak: the consecutive ticks, this one included and counted up to
\* 2, whose resolve adopted a target other than the caret within the dead
\* zone of the center it started from.  stamp: last_caret_target_tick_ as the
\* resolve found it.  met: what the present met; drawn: what it drew.
\* teardown: "attach" after StartMagnifier, "exit" after App::Shutdown;
\* stopped: the step ran StopMagnifier; released: the objects that step
\* released, in its order.
NoCenter == [has |-> FALSE, x |-> 0, y |-> 0]

NoTick == [fresh |-> FALSE, acquire1 |-> "none", torn |-> FALSE, reinit |-> "none",
           reinit_needs |-> FALSE, acquire2 |-> "none", resolved |-> FALSE,
           presented |-> FALSE, texture |-> FALSE, source |-> "none",
           outage |-> 0, recovered |-> 0, from |-> NoCenter, streak |-> 0,
           stamp |-> 0, met |-> PresentOk, drawn |-> NotDrawn,
           teardown |-> "none", stopped |-> FALSE, released |-> <<>>,
           restart |-> "none"]

NoWindow == [app |-> "other", rect |-> Rect(0, 0, 0, 0)]

\* After App::InitializeComponents and StartMagnifier: the configured zoom and
\* mode are loaded and InitializeForMonitor has succeeded on a desktop of one
\* of the sizes, with one of the windows in the foreground.
InitWith(zooms, modes, sizes, windows) ==
    /\ \E z \in zooms, m \in modes : app = AppInit(z, m)
    /\ \E size \in sizes :
         capture = InitializeForMonitor(CaptureEngineInit, TRUE, "ok", size).c
    /\ now = StartTime
    /\ foreground \in windows
    /\ magnifier = StartMagnifierWindow(MagnifierWindowInit, "ok", StartTime, TRUE)
    /\ tick = NoTick

Running == ~app.quit_posted

(***************************************************************************)
(* App::Update (app.cpp:579-612), one timer tick                           *)
(***************************************************************************)
\* What AcquireNextFrame returned, or "none" when it was not called
Outcome(r, hr) == IF r.called THEN hr ELSE "none"

\* has_center_ and current_center_ as the resolve finds them
CenterOf(a) == [has |-> a.has_center_, x |-> a.current_center_x_, y |-> a.current_center_y_]

\* The resolve finds a center and adopts a target other than the caret whose
\* distance from that center is within the dead zone (app.cpp:786-789)
InDeadZone(a, tg) ==
    /\ a.has_center_
    /\ tg.have_target /\ ~tg.target_is_caret
    /\ ~BeyondDeadZone(FSub(tg.x, a.current_center_x_), FSub(tg.y, a.current_center_y_))

\* A tick left without a frame stops the magnifier
FinishUpdateStopping(a, c, frame, t, m, o) ==
    /\ capture' = c
    /\ app' = IF frame.has THEN UpdateViewState(a, c.frame_desc_, now, foreground)
              ELSE StopMagnifier(a)
    /\ magnifier' = IF frame.has THEN PresentFrame(m, app'.view_state_, now, o).m ELSE m
    /\ tick' = [t EXCEPT !.fresh = TRUE, !.met = IF frame.has THEN o ELSE PresentOk,
                         !.resolved = frame.has, !.presented = frame.has]
    /\ UNCHANGED <<now, foreground>>

\* The end of the tick: frame is what the acquisitions left in `frame`
\* (app.cpp:604-611), c the engine after them, m the window after
\* CheckKeyboardLayout and o what the present meets.
FinishUpdate(a, c, frame, t, m, o) ==
    /\ capture' = c
    /\ app' = IF frame.has
              THEN UpdateViewState(a, c.frame_desc_, now, foreground)
              ELSE a
    /\ LET p == IF frame.has THEN PresentFrame(m, app'.view_state_, now, o)
                 ELSE [m |-> m, drawn |-> NotDrawn]
       IN
       /\ magnifier' = p.m
       /\ tick' = [t EXCEPT !.fresh = TRUE,
                         !.met = IF frame.has THEN o ELSE PresentOk,
                         !.drawn = p.drawn,
                         !.resolved = frame.has,
                         \* magnifier_->PresentFrame(frame.value(), view_state_)
                         !.presented = frame.has,
                         !.texture = frame.texture,
                         !.source = IF frame.has /\ c.frame_desc_.Width # 0
                                       /\ c.frame_desc_.Height # 0
                                    THEN ChosenSource(app, now, InputsSuppressed(app, now))
                                    ELSE "none",
                         !.from = IF frame.has THEN CenterOf(app) ELSE NoCenter,
                         !.streak = IF /\ frame.has
                                       /\ c.frame_desc_.Width # 0 /\ c.frame_desc_.Height # 0
                                       /\ InDeadZone(app, SelectTarget(app, c.frame_desc_, now,
                                                         InputsSuppressed(app, now)))
                                    THEN Min(tick.streak + 1, 2) ELSE 0,
                         !.stamp = IF frame.has THEN app.last_caret_target_tick_ ELSE 0]
    /\ UNCHANGED <<now, foreground>>

\* The answers the environment is asked for: the texture query follows only
\* an S_OK, a device is created only when there is none, and the desktop's
\* size is read only once DuplicateOutput has succeeded.
QueriesAfter(hr, queries) == IF hr = "S_OK" THEN queries ELSE {TRUE}

DevicesFor(c, devices) == IF c.device_ THEN {TRUE} ELSE devices

SizesFor(c, how, sizes) == IF how = "no_output" THEN {c.frame_desc_} ELSE sizes

\* Whether the overlay's texture is created is asked only when an overlay is
\* shown: when the keyboard layout has changed, when the window has started
CreatedFor(changed) == IF changed THEN BOOLEAN ELSE {TRUE}

\* The sets are what the environment may answer: AcquireNextFrame's results,
\* whether the texture query succeeds, whether a device can be created, how
\* CreateDuplication ends, the desktop's size, whether the keyboard layout
\* has changed since the last tick and what the present meets.
ActiveUpdate(a, results, queries, devices, duplications, sizes, layouts, presents) ==
    /\ \E changed \in layouts : \E created \in CreatedFor(changed) :
       \E o \in presents :
       \E hr1 \in results : \E as1 \in QueriesAfter(hr1, queries) :
         LET m == CheckKeyboardLayout(a, magnifier, changed, now, created)
             r1 == AcquireFrame(capture, hr1, as1)
             t1 == [NoTick EXCEPT !.acquire1 = Outcome(r1, hr1),
                                  !.restart = IF Inactive(app, now) THEN "failed"
                                              ELSE "none",
                                  !.torn = /\ ~r1.c.duplication_ /\ ~r1.c.staging_
                                           /\ r1.c.needs_reinitialize_]
         IN  IF ~r1.frame.has /\ r1.c.needs_reinitialize_
             THEN \E devOk \in DevicesFor(r1.c, devices), how \in duplications :
                  \E size \in SizesFor(r1.c, how, sizes) :
                    LET ri == Reinitialize(r1.c, devOk, how, size)
                    IN  IF ri.ok
                        THEN \E hr2 \in results : \E as2 \in QueriesAfter(hr2, queries) :
                               LET r2 == AcquireFrame(ri.c, hr2, as2)
                               IN  FinishUpdate(a, r2.c, r2.frame,
                                       [t1 EXCEPT !.reinit = "ok",
                                                  !.reinit_needs = ri.c.needs_reinitialize_,
                                                  !.acquire2 = Outcome(r2, hr2),
                                                  !.recovered = tick.outage],
                                       m, o)
                        ELSE FinishUpdate(a, ri.c, r1.frame,
                                 [t1 EXCEPT !.reinit = "fail",
                                            !.reinit_needs = ri.c.needs_reinitialize_,
                                            !.outage = Min(tick.outage + 1, MaxOutage)],
                                 m, o)
             ELSE FinishUpdate(a, r1.c, r1.frame, t1, m, o)

\* Whether CreateProcessW starts the new instance is asked only when
\* CheckInactivity calls RestartApplication
SpawnsFor(a, t) == IF Inactive(a, t) THEN BOOLEAN ELSE {FALSE}

\* App::Update.  A tick that finds the magnifier stopped and the user active
\* returns with nothing changed and is left out; one that restarts the
\* application returns at app.cpp:584 with the magnifier stopped.
UpdateWith(results, queries, devices, duplications, sizes, layouts, presents) ==
    /\ Running
    /\ app.magnifier_active_ \/ Inactive(app, now)
    /\ \E spawned \in SpawnsFor(app, now) :
         LET a == CheckInactivity(app, now, spawned)
         IN  IF a.magnifier_active_
             THEN ActiveUpdate(a, results, queries, devices, duplications, sizes,
                               layouts, presents)
             ELSE /\ app' = a
                  /\ magnifier' = IF spawned /\ app.magnifier_active_
                                  THEN StopMagnifierWindow(magnifier, now)
                                  ELSE magnifier
                  /\ tick' = [NoTick EXCEPT !.fresh = TRUE,
                                            !.restart = IF spawned THEN "spawned"
                                                        ELSE "failed",
                                            !.stopped = spawned /\ app.magnifier_active_,
                                            !.outage = tick.outage]
                  /\ UNCHANGED <<capture, now, foreground>>

\* A tick between two of which the keyboard layout stays and whose present
\* succeeds in every call
Update(results, queries, devices, duplications, sizes) ==
    UpdateWith(results, queries, devices, duplications, sizes, {FALSE}, {PresentOk})

(***************************************************************************)
(* The environment's events, each running its handler                      *)
(***************************************************************************)
\* Once another step has run, only the length of the outage is kept
Stale == [NoTick EXCEPT !.outage = tick.outage]

\* The clock moves on by dt ms
Advance(dt) ==
    /\ Running
    /\ now + dt <= MaxTime
    /\ now' = now + dt
    /\ tick' = Stale
    /\ UNCHANGED <<app, capture, foreground, magnifier>>

\* The instants, counted from StartTime, at which the environment acts: a
\* signal sent at the second of them is exactly 160, 600 and 900 ms old at
\* the third, fourth and last, and one sent at the first is 1 ms older; the
\* fifth is 160 ms after the fourth
ClockOffsets == {0, 1, 161, 601, 761, 901}

Instants(offsets) == {StartTime + d : d \in offsets}

\* The clock moves on to the instant t
AdvanceTo(t) ==
    /\ Running
    /\ t > now
    /\ now' = t
    /\ tick' = Stale
    /\ UNCHANGED <<app, capture, foreground, magnifier>>

\* A callback of the user's input that leaves the app a and the window m;
\* each of them calls MarkUserActivity (app.cpp:220, 237, 242, 245, 270, 362,
\* 1415), which nothing else in it reads or writes
HandleWith(a, m) ==
    /\ Running
    /\ app' = MarkUserActivity(a, now)
    /\ magnifier' = m
    /\ tick' = Stale
    /\ UNCHANGED <<capture, now, foreground>>

Handle(a) == HandleWith(a, magnifier)

CaretSignal(pt) == Handle(OnCaret(app, pt, now))

MouseSignal(pt) == Handle(OnMouseMove(app, pt, now))

FocusSignal(rect) == Handle(OnFocus(app, rect, now))

\* The window after the wheel callback: ChangeZoom runs for a consumed
\* wheel of at least one notch
OnWheelOverlay(a, m, delta, t, created) ==
    IF ~OnWheel(a, delta).consumed \/ delta = 0 THEN m
    ELSE ChangeZoomOverlay(a, m, kZoomStep * (delta \div WHEEL_DELTA), t, created)

\* WM_MOUSEWHEEL in TrackingManager::MouseProc, which calls the wheel
\* callback for a delta other than 0 (tracking_manager.cpp:463-470)
WheelEvent(delta) ==
    \E created \in BOOLEAN :
      /\ delta # 0
      /\ HandleWith(OnWheel(app, delta).a, OnWheelOverlay(app, magnifier, delta, now, created))

LeftClick(pt) == Handle(OnMouseLeftClick(app, pt, now, foreground))

\* Ctrl+Alt+Z runs RequestExit and with it StopMagnifier (app.cpp:353)
KeyEvent(vk, key_down, refresh) ==
    LET a == OnKey(app, vk, key_down, refresh, capture.frame_desc_, now)
    IN  HandleWith(a, IF a.quit_posted THEN StopMagnifierWindow(magnifier, now)
                      ELSE magnifier)

\* The hotkeys (app.cpp:361-404)
HotkeyZoomIn ==
    \E created \in BOOLEAN :
      HandleWith(ChangeZoom(app, kZoomStep),
                 ChangeZoomOverlay(app, magnifier, kZoomStep, now, created))

HotkeyZoomOut ==
    \E created \in BOOLEAN :
      HandleWith(ChangeZoom(app, -kZoomStep),
                 ChangeZoomOverlay(app, magnifier, -kZoomStep, now, created))

HotkeySwitchMode ==
    \E created \in BOOLEAN :
      HandleWith(CycleTrackingMode(app), SetTrackingModeBadge(magnifier, now, created))

HotkeyQuit == HandleWith(RequestExit(app), StopMagnifierWindow(magnifier, now))

\* How MagnifierWindow::Initialize ends when it succeeds, and when it fails
InitializeFor(winOk) == IF winOk THEN {"ok"} ELSE InitializeOutcomes \ {"ok"}

\* MagnifierWindow::Initialize is called only once InitializeForMonitor has
\* succeeded (app.cpp:531-540)
AttachesFor(ok, winOk) == IF ok THEN InitializeFor(winOk) ELSE {"ok"}

\* App::ToggleMagnifier: StopMagnifier, or StartMagnifier with
\* ConfigureForCurrentMonitors (winOk: MagnifierWindow::Initialize succeeds)
HotkeyToggleMagnifier(devices, duplications, sizes, windows) ==
    /\ Running
    /\ IF app.magnifier_active_
       THEN /\ app' = MarkUserActivity(StopMagnifier(app), now)
            /\ magnifier' = StopMagnifierWindow(magnifier, now)
            /\ UNCHANGED capture
       ELSE \E devOk \in devices, how \in duplications, winOk \in windows :
            \E size \in SizesFor(capture, how, sizes) :
              LET i == InitializeForMonitor(capture, devOk, how, size)
              IN  \E win \in AttachesFor(i.ok, winOk) :
                  \E created \in CreatedFor(i.ok /\ winOk) :
                  /\ capture' = i.c
                  /\ app' = MarkUserActivity(
                                IF i.ok /\ winOk
                                THEN ClearCenterHistory([app EXCEPT !.magnifier_active_ = TRUE])
                                ELSE app, now)
                  /\ magnifier' = IF i.ok
                                  THEN StartMagnifierWindow(magnifier, win, now, created)
                                  ELSE magnifier
    /\ tick' = IF app.magnifier_active_
               THEN [NoTick EXCEPT !.stopped = TRUE,
                                   !.released = ClearBadgesLog(magnifier)]
               ELSE [NoTick EXCEPT
                        !.teardown = "attach",
                        !.released =
                            ShutdownLog(capture)
                                \o IF capture'.duplication_ /\ capture'.staging_
                                   THEN MagnifierDestroyLog(magnifier) ELSE <<>>]
    /\ UNCHANGED <<now, foreground>>

\* App::Shutdown (app.cpp:156-195), which App::Run calls once the message
\* loop has read WM_QUIT: StopMagnifier if the magnifier is active, then the
\* window and then the engine are destroyed
AppShutdown ==
    /\ app.quit_posted
    /\ capture.source_monitor_ \/ capture.device_ \/ magnifier.hwnd_
    /\ LET stopped == IF app.magnifier_active_
                      THEN StopMagnifierWindow(magnifier, now) ELSE magnifier
       IN  /\ app' = IF app.magnifier_active_ THEN StopMagnifier(app) ELSE app
           /\ magnifier' = MagnifierWindowInit
           /\ capture' = Shutdown(capture)
           /\ tick' = [NoTick EXCEPT
                          !.teardown = "exit",
                          !.stopped = app.magnifier_active_,
                          !.released =
                              (IF app.magnifier_active_ THEN ClearBadgesLog(magnifier)
                               ELSE <<>>)
                                  \o MagnifierDestroyLog(stopped) \o ShutdownLog(capture)]
    /\ UNCHANGED <<now, foreground>>

ForegroundChange(f) ==
    /\ Running
    /\ foreground # f
    /\ foreground' = f
    /\ tick' = Stale
    /\ UNCHANGED <<app, capture, now, magnifier>>

(***************************************************************************)
(* Spec: the tick against every outcome of the capture session             *)
(***************************************************************************)
ConfigZooms == {0, 8, 14, 200}      \* the configured zoom * ZoomDen, in and out of range

FullHD == [Width |-> 1920, Height |-> 1080]

PointerA == Pt(410, 300)

PointerCorner == Pt(1919, 1079)

Init == InitWith({8}, {"Mouse"}, {FullHD}, {NoWindow})

UpdateAny == Update(AcquireResults, BOOLEAN, BOOLEAN, CreateDuplicationOutcomes, {FullHD})

ToggleAny == HotkeyToggleMagnifier(BOOLEAN, CreateDuplicationOutcomes, {FullHD}, BOOLEAN)

Next ==
    \/ UpdateAny
    \/ MouseSignal(PointerA)
    \/ ToggleAny
    \/ HotkeyQuit

Spec == Init /\ [][Next]_vars

(***************************************************************************)
(* SpecView: the resolve at every zoom, on signals at the edges            *)
(***************************************************************************)
CaretOrigin == Pt(2, 3)

CaretCorner == Pt(1918, 1079)

InitView == InitWith(kMinZoom .. kMaxZoom, {"Caret", "Mouse"}, FrameSizes, {NoWindow})

\* Every frame arrives
UpdateView == Update({"S_OK"}, {TRUE}, {TRUE}, {"ok"}, FrameSizes)

NextView ==
    \/ UpdateView
    \/ \E pt \in {CaretOrigin, CaretCorner} : CaretSignal(pt)
    \/ MouseSignal(PointerCorner)
    \/ KeyEvent("A", TRUE, NoPoint)

SpecView == InitView /\ [][NextView]_vars

(***************************************************************************)
(* SpecZoom: the zoom hotkeys and the Ctrl+Alt wheel, from every           *)
(* configured zoom                                                         *)
(***************************************************************************)
WheelDeltas == {WHEEL_DELTA, -WHEEL_DELTA, 2 * WHEEL_DELTA}

InitZoom == InitWith(ConfigZooms, {"Manual"}, {FullHD}, {NoWindow})

NextZoom ==
    \/ HotkeyZoomIn
    \/ HotkeyZoomOut
    \/ \E delta \in WheelDeltas : WheelEvent(delta)
    \/ \E vk \in {"CONTROL", "MENU"}, key_down \in BOOLEAN : KeyEvent(vk, key_down, NoPoint)
    \/ UpdateView

SpecZoom == InitZoom /\ [][NextZoom]_vars

ZoomInRange(z) == kMinZoom <= z /\ z <= kMaxZoom

\* C2: the zoom is within [1.0, 12.0] in every reachable state, the configured
\* value being clamped into it; zoom-in, zoom-out and a consumed wheel event
\* move it by 0.25 per step and saturate at the bounds.
C2_ZoomWithinBounds ==
    /\ [](ZoomInRange(app.zoom_) /\ ZoomInRange(app.view_state_.zoom))
    /\ [][/\ HotkeyZoomIn => app'.zoom_ = Min(app.zoom_ + kZoomStep, kMaxZoom)
          /\ HotkeyZoomOut => app'.zoom_ = Max(app.zoom_ - kZoomStep, kMinZoom)
          /\ \A delta \in WheelDeltas :
                WheelEvent(delta) /\ app.control_down_ /\ app.alt_down_ =>
                    app'.zoom_ = Max(kMinZoom, Min(kMaxZoom,
                                     app.zoom_ + kZoomStep * (delta \div WHEEL_DELTA)))]_vars

\* The zoom has just stepped up to 12.0 from a frame resolved at 11.75
C2_Witness ==
    /\ app.zoom_ = kMaxZoom
    /\ app.view_state_.zoom = kMaxZoom - kZoomStep
    /\ ~app.has_center_

(***************************************************************************)
(* SpecCaret: the caret's snap, with clicks, the reply zone of a messenger *)
(* and the END key held in a terminal                                      *)
(***************************************************************************)
Messenger == [app |-> "messenger", rect |-> Rect(0, 0, 1920, 1080)]

\* A terminal whose bottom-left corner, pinned as the view's at zoom 8.0, puts
\* the center within the dead zone of StripPoint
Terminal == [app |-> "putty", rect |-> Rect(185, 400, 985, 1071)]

CaretA == Pt(600, 500)

CaretNear == Pt(606, 500)       \* within the dead zone of CaretA's target

StripPoint == Pt(300, 1000)     \* in the bottom tenth, left of the reply zone

ClickPoint == Pt(470, 520)      \* 10 px left of the center range at zoom 2.0

PointerAway == Pt(2500, 300)    \* on another monitor

InitCaret == InitWith({32}, {"Caret"}, {FullHD}, {Messenger, Terminal})

NextCaret ==
    \/ UpdateView
    \/ \E pt \in {CaretA, CaretNear, CaretCorner} : CaretSignal(pt)
    \/ LeftClick(StripPoint)
    \/ \E key_down \in BOOLEAN : KeyEvent("END", key_down, NoPoint)
    \/ Advance(kEndHoldThresholdMs)

SpecCaret == InitCaret /\ [][NextCaret]_vars

(***************************************************************************)
(* SpecClick: the pointer and left clicks, the clock running in TimeStep   *)
(***************************************************************************)
InitClick == InitWith({8}, {"Mouse"}, {FullHD}, {NoWindow})

NextClick ==
    \/ UpdateView
    \/ \E pt \in {ClickPoint, PointerAway} : MouseSignal(pt)
    \/ LeftClick(ClickPoint)
    \/ KeyEvent("A", TRUE, NoPoint)
    \/ Advance(TimeStep)

SpecClick == InitClick /\ [][NextClick]_vars

(***************************************************************************)
(* SpecDead: a pointer resting near the center, with the reply zone and    *)
(* the END key held in a terminal                                          *)
(***************************************************************************)
InitDead == InitWith({32}, {"Mouse"}, {FullHD}, {Messenger, Terminal})

NextDead ==
    \/ UpdateView
    \/ MouseSignal(StripPoint)
    \/ LeftClick(StripPoint)
    \/ \E key_down \in BOOLEAN : KeyEvent("END", key_down, NoPoint)
    \/ Advance(kEndHoldThresholdMs)

SpecDead == InitDead /\ [][NextDead]_vars

(***************************************************************************)
(* Claims checked under SpecView                                           *)
(***************************************************************************)
\* The last step was a tick that resolved the view
Resolved == tick.fresh /\ tick.resolved

RegionInFrame(r, desc) ==
    /\ 0 <= r.left /\ r.left < r.right /\ r.right <= desc.Width
    /\ 0 <= r.top /\ r.top < r.bottom /\ r.bottom <= desc.Height

\* C1: after every resolve the produced source region satisfies
\* 0 <= left < right <= W and 0 <= top < bottom <= H.
C1_RegionWithinFrame ==
    Resolved => RegionInFrame(app.view_state_.source_region, capture.frame_desc_)

RangeTolerance == 64    \* Units (2^-12 pixel) allowed between a float and the exact quotient

\* extent / (2 * zoom) in Units, rounded down
HalfExtent(extent, zoom) == (extent * Unit * ZoomDen) \div (2 * zoom)

InCenterRange(c, extent, zoom) ==
    /\ c >= HalfExtent(extent, zoom) - RangeTolerance
    /\ c <= Px(extent) - HalfExtent(extent, zoom) + RangeTolerance

\* span whole pixels cover extent / zoom and no more than the two pixels the
\* floor and the ceiling add
CoversView(span, extent, zoom) ==
    /\ span * zoom >= extent * ZoomDen
    /\ (span - 2) * zoom < extent * ZoomDen

\* C3: a resolve on a frame W x H at zoom z uses a view of W/z x H/z, and a
\* defined center lies in [W/(2z), W - W/(2z)] x [H/(2z), H - H/(2z)]; on
\* 1920x1080 at zoom 2.0 the view is 960x540 and the range [480, 1440] x [270, 810].
C3_ViewAndCenterRange ==
    LET d == capture.frame_desc_
        r == app.view_state_.source_region
    IN  /\ app.has_center_ =>
             /\ InCenterRange(app.current_center_x_, d.Width, app.zoom_)
             /\ InCenterRange(app.current_center_y_, d.Height, app.zoom_)
        /\ Resolved =>
             /\ app.has_center_
             /\ CoversView(r.right - r.left, d.Width, app.zoom_)
             /\ CoversView(r.bottom - r.top, d.Height, app.zoom_)
        /\ Resolved /\ d = FullHD /\ app.zoom_ = 2 * ZoomDen =>
             /\ ViewWidth(d, app.zoom_) = Px(960)
             /\ ViewHeight(d, app.zoom_) = Px(540)
             /\ app.current_center_x_ >= Px(480) /\ app.current_center_x_ <= Px(1440)
             /\ app.current_center_y_ >= Px(270) /\ app.current_center_y_ <= Px(810)
             /\ r.right - r.left \in {960, 961}
             /\ r.bottom - r.top \in {540, 541}

\* A resolve at zoom 2.0 on 1920x1080 whose target lay beyond the range
C3_Witness ==
    /\ Resolved
    /\ capture.frame_desc_ = FullHD /\ app.zoom_ = 2 * ZoomDen
    /\ app.current_center_x_ = Px(1440) /\ app.current_center_y_ = Px(810)
    /\ app.view_state_.source_region = Rect(960, 540, 1920, 1080)

(***************************************************************************)
(* Claims checked under SpecCaret, SpecClick and SpecDead                  *)
(***************************************************************************)
\* The terminal anchor governs the center (app.cpp:768-778)
Anchored == app.end_alignment_active_ /\ app.has_putty_anchor_

\* The center the reply-zone and frame clamps of the last resolve make of the
\* point x, y (app.cpp:808-822)
Clamped(x, y) ==
    CenterOf(FrameClamp(MessengerClamp([app EXCEPT !.current_center_x_ = x,
                                                   !.current_center_y_ = y,
                                                   !.has_center_ = TRUE],
                                       capture.frame_desc_),
                        capture.frame_desc_))

\* The center the frame clamp alone makes of the point x, y (app.cpp:821-822)
FrameClamped(x, y) ==
    CenterOf(FrameClamp([app EXCEPT !.current_center_x_ = x,
                                    !.current_center_y_ = y,
                                    !.has_center_ = TRUE],
                        capture.frame_desc_))

\* The last resolve adopted the caret; its target is the caret shifted by 4 px
CaretAdopted == Resolved /\ tick.source = "caret"

CaretShifted == CaretTarget(ScreenToSource(app.caret_position_))

ClickLocked ==
    app.click_lock_active_ /\ app.has_last_click_ /\ app.last_click_source_.ok

ClickBound == ClickLimit(now - app.last_click_tick_)

\* C5 as stated, the frame clamp allowed for: while the click lock is active
\* every resolve yields a center within 50 px/s * dt of the click point on
\* each axis.
C5_ClickBoundAlways ==
    Resolved /\ ClickLocked =>
        /\ app.current_center_x_ >= FrameClamped(FSub(app.last_click_source_.x, ClickBound),
                                                 FSub(app.last_click_source_.y, ClickBound)).x
        /\ app.current_center_x_ <= FrameClamped(FAdd(app.last_click_source_.x, ClickBound),
                                                 FAdd(app.last_click_source_.y, ClickBound)).x
        /\ app.current_center_y_ >= FrameClamped(FSub(app.last_click_source_.x, ClickBound),
                                                 FSub(app.last_click_source_.y, ClickBound)).y
        /\ app.current_center_y_ <= FrameClamped(FAdd(app.last_click_source_.x, ClickBound),
                                                 FAdd(app.last_click_source_.y, ClickBound)).y

\* The last resolve took the first snap or a smoothing step under the click lock
ClickLimited ==
    /\ Resolved /\ ClickLocked /\ ~Anchored
    /\ \/ ~tick.from.has
       \/ tick.source \in {"mouse", "focus"} /\ tick.streak = 0

\* C5: while the click lock is active, a resolve that defines the center for
\* the first time or moves it by a smoothing step yields a center that the
\* reply-zone and frame clamps make of a point within 50 px/s * dt of the
\* click point on each axis.
C5_ClickBound ==
    ClickLimited =>
        /\ app.current_center_x_ >= Clamped(FSub(app.last_click_source_.x, ClickBound),
                                            FSub(app.last_click_source_.y, ClickBound)).x
        /\ app.current_center_x_ <= Clamped(FAdd(app.last_click_source_.x, ClickBound),
                                            FAdd(app.last_click_source_.y, ClickBound)).x
        /\ app.current_center_y_ >= Clamped(FSub(app.last_click_source_.x, ClickBound),
                                            FSub(app.last_click_source_.y, ClickBound)).y
        /\ app.current_center_y_ <= Clamped(FAdd(app.last_click_source_.x, ClickBound),
                                            FAdd(app.last_click_source_.y, ClickBound)).y

\* One TimeStep after a click at (470, 520) a smoothing step from (480, 270)
\* is cut to 25 px above the click; the frame clamp keeps x at 480
C5_Witness ==
    /\ ClickLimited
    /\ now - app.last_click_tick_ = TimeStep
    /\ tick.from = [has |-> TRUE, x |-> Px(480), y |-> Px(270)]
    /\ app.current_center_x_ = Px(480)
    /\ app.current_center_y_ = FSub(app.last_click_source_.y, ClickBound)

\* The last resolve adopted a target other than the caret within the dead zone
DeadZoneResolve == Resolved /\ tick.streak >= 1

C7_Outage ==
    /\ tick.outage >= 1 => capture.needs_reinitialize_ /\ ~tick.presented
    /\ tick.fresh /\ tick.reinit = "fail" =>
          /\ tick.outage >= 1
          /\ tick.acquire2 = "none" /\ ~tick.resolved
    /\ tick.fresh /\ tick.reinit = "ok" =>
          /\ ~tick.reinit_needs
          /\ tick.outage = 0
          /\ tick.acquire2 \in {"S_OK", "WAIT_TIMEOUT"} => ~capture.needs_reinitialize_

\* Reinitialize succeeds on the tick after three ticks on which it failed,
\* and the frame it makes available is presented
C7_Witness ==
    /\ tick.fresh /\ tick.reinit = "ok" /\ tick.recovered = 3
    /\ ~capture.needs_reinitialize_
    /\ tick.presented

C10_TimeoutTransient ==
    tick.fresh /\ tick.acquire1 = "WAIT_TIMEOUT" => ~tick.resolved /\ ~tick.presented

(***************************************************************************)
(* SpecEngine: the calls of CaptureEngine in any order, directly and from  *)
(* the tick, against every outcome of the device and the session           *)
(***************************************************************************)
\* A call that leaves the engine as c; t records what it returned
Call(c, t) ==
    /\ capture' = c
    /\ tick' = t
    /\ UNCHANGED <<app, now, foreground, magnifier>>

EngineAcquireFrame ==
    \E hr \in AcquireResults : \E asOk \in QueriesAfter(hr, BOOLEAN) :
        Call(AcquireFrame(capture, hr, asOk).c,
             [NoTick EXCEPT !.acquire1 = Outcome(AcquireFrame(capture, hr, asOk), hr),
                            !.resolved = AcquireFrame(capture, hr, asOk).frame.has,
                            !.texture = AcquireFrame(capture, hr, asOk).frame.texture])

EngineReleaseFrame == Call(ReleaseFrame(capture), NoTick)

EngineReinitialize ==
    \E devOk \in DevicesFor(capture, BOOLEAN), how \in CreateDuplicationOutcomes :
    \E size \in SizesFor(capture, how, FrameSizes) :
        Call(Reinitialize(capture, devOk, how, size).c,
             [NoTick EXCEPT !.reinit = IF Reinitialize(capture, devOk, how, size).ok
                                       THEN "ok" ELSE "fail",
                            !.reinit_needs =
                                Reinitialize(capture, devOk, how, size).c.needs_reinitialize_])

EngineShutdown == Call(Shutdown(capture), NoTick)

EngineInitializeForMonitor ==
    \E devOk \in BOOLEAN, how \in CreateDuplicationOutcomes :
    \E size \in SizesFor(capture, how, FrameSizes) :
        Call(InitializeForMonitor(capture, devOk, how, size).c, NoTick)

InitEngine == InitWith({8}, {"Manual"}, FrameSizes, {NoWindow})

\* The tick on a desktop whose mode may change
UpdateEngine ==
    Update(AcquireResults, BOOLEAN, BOOLEAN, CreateDuplicationOutcomes, FrameSizes)

NextEngine ==
    \/ UpdateEngine
    \/ EngineAcquireFrame
    \/ EngineReleaseFrame
    \/ EngineReinitialize
    \/ EngineShutdown
    \/ EngineInitializeForMonitor

SpecEngine == InitEngine /\ [][NextEngine]_vars

\* C8: AcquireNextFrame is never issued while a frame acquired before has not
\* been released; between the calls of the engine no frame is checked out.
C8_OneFrameCheckedOut == ~capture.overlap /\ capture.held = 0

\* A session that has handed out a second frame after the first
C8_Witness ==
    /\ capture.frames = 2 /\ capture.duplication_
    /\ tick.acquire1 = "S_OK" /\ tick.resolved
    /\ ~capture.overlap

\* The last call was an AcquireFrame that reached AcquireNextFrame and failed
\* neither by a timeout nor by the loss of the session: AcquireNextFrame
\* failed otherwise, or the frame did not yield its texture interface
FailedOtherwise ==
    /\ ~tick.fresh
    /\ \/ tick.acquire1 = "FAILED"
       \/ tick.acquire1 = "S_OK" /\ ~tick.resolved

\* C11: every AcquireFrame that fails for a reason other than a timeout or
\* the invalidation of the session returns with NeedsReinitialize() true.
C11_OtherFailureForcesReinit == FailedOtherwise => capture.needs_reinitialize_

(***************************************************************************)
(* SpecAuto: the three signals in Auto mode, at ages on both sides of the  *)
(* follow timeouts                                                         *)
(***************************************************************************)
CaretFar == Pt(1000, 600)

PointerNear == Pt(100, 100)

FocusBox == Rect(150, 100, 250, 200)

InitAuto == InitWith({8}, {"Auto"}, {FullHD}, {NoWindow})

NextAuto ==
    \/ UpdateView
    \/ CaretSignal(CaretFar)
    \/ \E pt \in {PointerNear, PointerAway} : MouseSignal(pt)
    \/ FocusSignal(FocusBox)
    \/ \E t \in Instants(ClockOffsets) : AdvanceTo(t)

SpecAuto == InitAuto /\ [][NextAuto]_vars

\* A signal last updated at `last` is at most `timeout` ms old and its point
\* p lies on the source monitor
Qualifies(last, timeout, p) == now - last <= timeout /\ PointInRect(SourceMonitor.bounds, p)

CaretQualifies == Qualifies(app.last_caret_tick_, kCaretFollowTimeoutMs, app.caret_position_)

\* In Auto mode the pointer also has to be newer than the last caret-driven
\* center update
PointerQualifies ==
    /\ Qualifies(app.last_mouse_tick_, kMouseFollowTimeoutMs, app.mouse_position_)
    /\ app.tracking_mode_ = "Auto" => app.last_mouse_tick_ > tick.stamp

FocusQualifies ==
    Qualifies(app.last_focus_tick_, kFocusFollowTimeoutMs, RectCenter(app.focus_rect_))

\* C12: in Auto mode a resolve adopts the caret when it qualifies, otherwise
\* the pointer when it qualifies, otherwise the center of the focus rectangle
\* when it qualifies, otherwise nothing.
C12_AutoPriority ==
    Resolved /\ app.tracking_mode_ = "Auto" =>
        tick.source = IF CaretQualifies THEN "caret"
                      ELSE IF PointerQualifies THEN "mouse"
                      ELSE IF FocusQualifies THEN "focus"
                      ELSE "none"

\* The caret is adopted over a pointer and a focus rectangle that qualify, and
\* the center is snapped to it
C12_Witness ==
    /\ Resolved /\ app.tracking_mode_ = "Auto"
    /\ CaretQualifies /\ PointerQualifies /\ FocusQualifies
    /\ tick.source = "caret"
    /\ tick.from.has /\ CenterOf(app) # tick.from

\* The resolve found a caret-driven center update that the caret signal has
\* not been updated since and that the pointer has been updated after
PointerCameLater ==
    /\ Resolved /\ app.tracking_mode_ = "Auto"
    /\ app.last_caret_tick_ < tick.stamp
    /\ tick.stamp < app.last_mouse_tick_

InitMode == InitWith({8}, {"Caret", "Mouse", "Focus"}, {FullHD}, {NoWindow})

NextMode ==
    \/ UpdateView
    \/ CaretSignal(CaretFar)
    \/ MouseSignal(PointerNear)
    \/ FocusSignal(FocusBox)
    \/ \E t \in Instants(ClockOffsets \ {761}) : AdvanceTo(t)

SpecMode == InitMode /\ [][NextMode]_vars

\* The signal of a single-signal mode, the time of its last update and its
\* follow timeout
OwnSignal ==
    CASE app.tracking_mode_ = "Caret" ->
            [name |-> "caret", last |-> app.last_caret_tick_, timeout |-> kCaretFollowTimeoutMs]
      [] app.tracking_mode_ = "Mouse" ->
            [name |-> "mouse", last |-> app.last_mouse_tick_, timeout |-> kMouseFollowTimeoutMs]
      [] app.tracking_mode_ = "Focus" ->
            [name |-> "focus", last |-> app.last_focus_tick_, timeout |-> kFocusFollowTimeoutMs]
      [] OTHER -> [name |-> "none", last |-> 0, timeout |-> 0]

InitManual == InitWith({kMaxZoom - 1}, {"Manual"}, {FullHD}, {Messenger, Terminal})

NextManual ==
    \/ UpdateView
    \/ MouseSignal(StripPoint)
    \/ CaretSignal(CaretA)
    \/ FocusSignal(FocusBox)
    \/ LeftClick(StripPoint)
    \/ \E key_down \in BOOLEAN : KeyEvent("END", key_down, NoPoint)
    \/ KeyEvent("A", TRUE, NoPoint)
    \/ HotkeyZoomIn
    \/ Advance(kEndHoldThresholdMs)

SpecManual == InitManual /\ [][NextManual]_vars

InitHold == InitWith({kMaxZoom - 1}, {"Mouse"}, {FullHD}, {NoWindow, Messenger})

NextHold ==
    \/ UpdateView
    \/ MouseSignal(StripPoint)
    \/ LeftClick(StripPoint)
    \/ HotkeyZoomIn
    \/ Advance(kEndHoldThresholdMs)

SpecHold == InitHold /\ [][NextHold]_vars

\* The resolve adopted no signal and neither the terminal pin nor the reply
\* lock is active
NothingGoverns ==
    Resolved /\ tick.source = "none" /\ ~Anchored /\ ~app.messenger_zone_active_

InitPin == InitWith({8}, {"Auto"}, {FullHD}, {Terminal})

NextPin ==
    \/ UpdateView
    \/ CaretSignal(CaretFar)
    \/ MouseSignal(PointerNear)
    \/ FocusSignal(FocusBox)
    \/ \E key_down \in BOOLEAN : KeyEvent("END", key_down, NoPoint)
    \/ Advance(kEndHoldThresholdMs)

SpecPin == InitPin /\ [][NextPin]_vars

\* The center the terminal pin gives the view at the last resolve
Pinned == CenterOf(PinCenter(app, capture.frame_desc_))

Between(c, p, q) == Min(p, q) <= c /\ c <= Max(p, q)

\* The target of the signal the last resolve adopted
AdoptedTarget == TargetOf(app, capture.frame_desc_, tick.source)

\* C17: in every resolve one thing determines the new center.  When the
\* terminal pin is applied the center is the pinned one, whatever signal was
\* adopted; otherwise at most one of caret, pointer and focus is adopted: with
\* none the defined center is held, with the caret the center is the caret's
\* target, with the pointer or the focus rectangle the center stays or moves
\* from the previous center toward that one signal's target.
C17_OneGovernor ==
    Resolved =>
        /\ Cardinality({s \in {"caret", "mouse", "focus"} : tick.source = s}) <= 1
        /\ Anchored => CenterOf(app) = FrameClamped(Pinned.x, Pinned.y)
        /\ ~Anchored /\ tick.from.has =>
              /\ tick.source = "none" =>
                    CenterOf(app) = Clamped(tick.from.x, tick.from.y)
              /\ tick.source = "caret" =>
                    CenterOf(app) = Clamped(CaretShifted.x, CaretShifted.y)
              /\ tick.source \in {"mouse", "focus"} /\ ~ClickLocked =>
                    /\ Between(app.current_center_x_, tick.from.x,
                               Clamped(AdoptedTarget.x, AdoptedTarget.y).x)
                    /\ Between(app.current_center_y_, tick.from.y,
                               Clamped(AdoptedTarget.x, AdoptedTarget.y).y)

\* The resolve on which the pin becomes active after END was held for 1000 ms
\* adopts the fresh caret, and the center is the pinned one, not the caret's
C17_Witness ==
    /\ Resolved /\ Anchored /\ tick.source = "caret"
    /\ now - app.last_mouse_tick_ = 0 /\ now - app.last_focus_tick_ = 0
    /\ CenterOf(app) = FrameClamped(Pinned.x, Pinned.y)
    /\ CenterOf(app) # Clamped(CaretShifted.x, CaretShifted.y)

(***************************************************************************)
(* SpecEnd: the END key held in terminals at several places of the         *)
(* desktop, at several zooms                                               *)
(***************************************************************************)
\* A terminal in the upper right of the desktop
TerminalHigh == [app |-> "putty", rect |-> Rect(1500, 100, 1900, 400)]

\* A maximised terminal: its borders lie 8 px beyond the monitor
TerminalMax == [app |-> "putty", rect |-> Rect(-8, -8, 1928, 1088)]

EndZooms == {7, 8, 32}

InitEnd == InitWith(EndZooms, {"Mouse"}, {FullHD}, {Terminal, TerminalHigh, TerminalMax})

NextEnd ==
    \/ UpdateView
    \/ MouseSignal(StripPoint)
    \/ LeftClick(StripPoint)
    \/ \E key_down \in BOOLEAN : KeyEvent("END", key_down, NoPoint)
    \/ Advance(kEndHoldThresholdMs)

SpecEnd == InitEnd /\ [][NextEnd]_vars

\* The bottom-left corner of the foreground window in source coordinates
\* (app.cpp:750-754)
WindowCorner ==
    ScreenToSource(Pt(foreground.rect.left,
                      Max(foreground.rect.top, foreground.rect.bottom - 1)))

\* The last resolve found END held for 1000 ms or more and a terminal in front
HeldInTerminal ==
    /\ Resolved
    /\ app.end_key_down_ /\ now - app.end_press_tick_ >= kEndHoldThresholdMs
    /\ foreground.app = "putty"

\* The left and bottom edges of the resolved view (app.cpp:824-830)
ViewLeft == FSub(app.current_center_x_, HalfW(capture.frame_desc_, app.zoom_))

ViewBottom ==
    FAdd(FSub(app.current_center_y_, HalfH(capture.frame_desc_, app.zoom_)),
         ViewHeight(capture.frame_desc_, app.zoom_))

\* C18 as stated: when END has been held for 1000 ms or more with a terminal
\* in the foreground, the bottom-left corner of the resolved view is the
\* window's bottom-left corner in source coordinates.
C18_PinAtWindowCorner ==
    HeldInTerminal =>
        /\ WindowCorner.ok
        /\ ViewLeft = WindowCorner.x /\ ViewBottom = WindowCorner.y

\* C18: when END has been held for 1000 ms or more with a terminal in the
\* foreground whose bottom-left corner lies on the source monitor, the
\* resolve applies the pin and no smoothing, dead-zone or click-limit step:
\* the view's left edge is the corner's x clamped to [0, W - view width] and
\* its bottom edge the corner's y clamped to [view height, H], up to the
\* rounding of the float arithmetic.
C18_PinAtClampedCorner ==
    HeldInTerminal /\ WindowCorner.ok =>
        LET d  == capture.frame_desc_
            vw == ViewWidth(d, app.zoom_)
            vh == ViewHeight(d, app.zoom_)
        IN  /\ Anchored
            /\ app.putty_anchor_source_ = Pt(WindowCorner.x, WindowCorner.y)
            /\ CenterOf(app) = FrameClamped(Pinned.x, Pinned.y)
            /\ Abs(ViewLeft - Clamp(WindowCorner.x, 0, Px(d.Width) - vw)) <= RangeTolerance
            /\ Abs(ViewBottom - Clamp(WindowCorner.y, vh, Px(d.Height))) <= RangeTolerance

\* With the terminal at (185, 400)-(985, 1071) and a click lock and a fresh
\* pointer signal at hand, the view's bottom-left is (185, 1070)
C18_Witness ==
    /\ HeldInTerminal /\ foreground = Terminal
    /\ ClickLocked /\ tick.source = "mouse"
    /\ ViewLeft = Px(185) /\ ViewBottom = Px(1070)
    /\ app.view_state_.source_region.left = 185
    /\ app.view_state_.source_region.bottom = 1070

(***************************************************************************)
(* SpecCycle: the mode hotkey among pointer and caret signals              *)
(***************************************************************************)
InitCycle == InitWith({8}, {"Auto"}, {FullHD}, {NoWindow})

NextCycle ==
    \/ UpdateView
    \/ HotkeySwitchMode
    \/ CaretSignal(CaretFar)
    \/ MouseSignal(PointerNear)
    \/ Advance(kEndHoldThresholdMs)

SpecCycle == InitCycle /\ [][NextCycle]_vars

ModeOrder == <<"Auto", "Caret", "Mouse", "Focus", "Manual">>

\* n consecutive calls of CycleTrackingMode
RECURSIVE Cycled(_, _)
Cycled(a, n) == IF n = 0 THEN a ELSE Cycled(CycleTrackingMode(a), n - 1)

\* C19: CycleTrackingMode takes Auto to Caret, Caret to Mouse, Mouse to Focus,
\* Focus to Manual and Manual to Auto; from any mode five consecutive calls
\* return to that mode and one to four calls never do.
C19_ModeCycle ==
    /\ \A i \in 1..5 :
          LET a == [app EXCEPT !.tracking_mode_ = ModeOrder[i]]
          IN  /\ CycleTrackingMode(a).tracking_mode_ = ModeOrder[(i % 5) + 1]
              /\ Cycled(a, 5) = a
              /\ \A k \in 1..4 : Cycled(a, k).tracking_mode_ # a.tracking_mode_
    /\ app.tracking_mode_ \in Modes
    /\ Cycled(app, 5) = app
    /\ \A k \in 1..4 : Cycled(app, k).tracking_mode_ # app.tracking_mode_

\* Four presses of the hotkey from Auto mode: Manual mode, in which a resolve
\* adopts neither the fresh caret nor the fresh pointer
C19_Witness ==
    /\ app.tracking_mode_ = "Manual"
    /\ CycleTrackingMode(app).tracking_mode_ = "Auto"
    /\ Resolved /\ tick.source = "none"
    /\ now - app.last_caret_tick_ = 0 /\ now - app.last_mouse_tick_ = 0

(***************************************************************************)
(* The reply lock, checked under SpecCaret                                 *)
(***************************************************************************)
\* The bottom tenth of the source monitor (app.cpp:1427-1433)
InBottomStrip(pt) ==
    /\ PointInRect(SourceMonitor.bounds, pt)
    /\ pt.y >= SourceMonitor.bounds.bottom
                 - Lround10(SourceMonitor.bounds.bottom - SourceMonitor.bounds.top)

\* The reply lock is active after the last resolve
ReplyLocked == Resolved /\ app.messenger_zone_active_

InRect(c, z) ==
    /\ z.left <= c.x /\ c.x <= z.right
    /\ z.top <= c.y /\ c.y <= z.bottom

\* C20: while the reply lock is active, which it is only after a left click
\* in the bottom strip of the source monitor with a messenger in front, every
\* resolved center lies inside the lock rectangle of that click, on a monitor
\* of 1920x1080 the rectangle (480, 972)-(1919, 1079).
C20_ReplyLockClamp ==
    ReplyLocked =>
        /\ app.has_last_click_ /\ InBottomStrip(app.last_click_position_)
        /\ foreground.app = "messenger"
        /\ app.messenger_zone_source_ = Rect(Px(480), Px(972), Px(1919), Px(1079))
        /\ InRect(CenterOf(app), app.messenger_zone_source_)

\* After a click at (300, 1000) in a messenger the caret at (600, 500) is
\* adopted and the center is held at the lock rectangle's top edge, y = 972
C20_Witness ==
    /\ ReplyLocked /\ tick.source = "caret"
    /\ app.caret_position_ = CaretA
    /\ app.last_click_position_ = StripPoint
    /\ CenterOf(app) = [has |-> TRUE, x |-> Px(604), y |-> Px(972)]

(***************************************************************************)
(* SpecBadge: the text badges and the cursor glyph over presents that may  *)
(* fail in any call                                                        *)
(***************************************************************************)
\* The instants after StartTime at which the environment acts: the startup
\* badge lasts until the third of them
BadgeOffsets == {1000, 1500, 2000, 2500}

InitBadge == InitWith({kMaxZoom - 1}, {"Manual"}, {FullHD}, {NoWindow})

\* The presents in which at most one call fails
BadgePresents ==
    {o \in PresentOutcomes :
        Cardinality({f \in {"srv", "cursor", "cursor_mapped", "badge_mapped"} :
                        o[f] # PresentOk[f]}) <= 1}

UpdateBadge ==
    UpdateWith({"S_OK"}, {TRUE}, {TRUE}, {"ok"}, {FullHD}, BOOLEAN, BadgePresents)

\* The middle of the source monitor, which the view of Manual mode shows
PointerMiddle == Pt(960, 540)

\* The pointer moves there before the clock has moved
PointerAtStart == now = StartTime /\ MouseSignal(PointerMiddle)

NextBadge ==
    \/ UpdateBadge
    \/ HotkeyZoomIn
    \/ PointerAtStart
    \/ \E t \in Instants(BadgeOffsets) : AdvanceTo(t)

SpecBadge == InitBadge /\ [][NextBadge]_vars

\* The layout overlay, and the status badge, is held and has not expired at t
LayoutUnexpired(m, t) ==
    m.overlay_srv_ /\ (m.overlay_expire_tick_ = 0 \/ t < m.overlay_expire_tick_)

StatusUnexpired(m, t) ==
    /\ m.status_overlay_srv_
    /\ (m.status_overlay_expire_tick_ = 0 \/ t < m.status_overlay_expire_tick_)

\* C21: a present draws at most one text badge: the layout overlay only
\* while it is held and unexpired, the status badge only while it is held
\* and unexpired and only on a present that holds no unexpired layout
\* overlay.
C21_OneBadge ==
    tick.drawn.swapped =>
        /\ ~(tick.drawn.layout /\ tick.drawn.status)
        /\ tick.drawn.layout => LayoutUnexpired(magnifier, now)
        /\ tick.drawn.status =>
               StatusUnexpired(magnifier, now) /\ ~LayoutUnexpired(magnifier, now)

\* A present draws the layout overlay while an unexpired status badge is held
C21_Witness ==
    /\ tick.drawn.swapped /\ tick.drawn.layout /\ ~tick.drawn.status
    /\ StatusUnexpired(magnifier, now)

\* A present draws the status badge
C21_WitnessStatus == tick.drawn.swapped /\ tick.drawn.status

\* The layout overlay, and the status badge, holds its texture or its view
\* at or after its expiry
LayoutExpired(m, t) ==
    /\ m.overlay_srv_ \/ m.overlay_texture_
    /\ m.overlay_expire_tick_ # 0 /\ t >= m.overlay_expire_tick_

StatusExpired(m, t) ==
    /\ m.status_overlay_srv_ \/ m.status_overlay_texture_
    /\ m.status_overlay_expire_tick_ # 0 /\ t >= m.status_overlay_expire_tick_

\* C22 as stated: no present draws a badge at or after its expiry, and after
\* every present neither badge holds a texture or a view past its expiry.
C22_ReleasedOnPresent ==
    tick.drawn.swapped =>
        /\ tick.drawn.layout => LayoutUnexpired(magnifier, now)
        /\ tick.drawn.status => StatusUnexpired(magnifier, now)
        /\ ~LayoutExpired(magnifier, now)
        /\ ~StatusExpired(magnifier, now)

\* C22: no present draws a badge at or after its expiry; after every present
\* the layout overlay holds no texture or view past its expiry, and the
\* status badge holds none past its expiry unless the present holds an
\* unexpired layout overlay, which hides the status badge and its expiry.
C22_ReleasedWhenReached ==
    tick.drawn.swapped =>
        /\ tick.drawn.layout => LayoutUnexpired(magnifier, now)
        /\ tick.drawn.status => StatusUnexpired(magnifier, now)
        /\ ~LayoutExpired(magnifier, now)
        /\ ~LayoutUnexpired(magnifier, now) => ~StatusExpired(magnifier, now)

\* One present finds both badges expired and releases both
C22_Witness ==
    /\ tick.drawn.swapped
    /\ tick.drawn.layout_released /\ tick.drawn.status_released
    /\ ~tick.drawn.layout /\ ~tick.drawn.status

\* A present draws the layout overlay and leaves the expired status badge held
C22_WitnessHidden ==
    tick.drawn.swapped /\ tick.drawn.layout /\ StatusExpired(magnifier, now)

\* The cursor of the resolved view lies in its source region
CursorInView(state) ==
    /\ state.cursor_visible
    /\ state.cursor_x >= Px(state.source_region.left)
    /\ state.cursor_x <= Px(state.source_region.right)
    /\ state.cursor_y >= Px(state.source_region.top)
    /\ state.cursor_y <= Px(state.source_region.bottom)

\* C24: a present that has the view of the frame's texture draws the base
\* frame and swaps, whatever becomes of the cursor glyph and of the badges;
\* a failure of the glyph does not omit a badge that is held, unexpired and
\* mapped, and a failure of the badge does not omit the glyph.
C24_OverlayOnly ==
    tick.presented /\ tick.met.srv =>
        /\ tick.drawn.base /\ tick.drawn.swapped
        /\ (/\ tick.met.badge_mapped
            /\ LayoutUnexpired(magnifier, now) \/ StatusUnexpired(magnifier, now))
           => tick.drawn.layout \/ tick.drawn.status
        /\ (/\ tick.met.cursor = "ok" /\ tick.met.cursor_mapped
            /\ CursorInView(app.view_state_))
           => tick.drawn.cursor

\* The cursor's texture fails to build; the frame and a badge are drawn
C24_Witness ==
    /\ tick.presented /\ tick.met.cursor \in {"failed", "failed_dropped"}
    /\ CursorInView(app.view_state_) /\ ~tick.drawn.cursor
    /\ tick.drawn.base /\ tick.drawn.swapped /\ tick.drawn.layout

\* The badge's quad fails to map; the frame and the glyph are drawn
C24_WitnessBadge ==
    /\ tick.presented /\ ~tick.met.badge_mapped
    /\ LayoutUnexpired(magnifier, now) /\ ~tick.drawn.layout /\ ~tick.drawn.status
    /\ tick.drawn.base /\ tick.drawn.swapped /\ tick.drawn.cursor

(***************************************************************************)
(* SpecTick: the order of a tick over sessions that are lost and rebuilt   *)
(* on a desktop whose size changes                                         *)
(***************************************************************************)
InitTick == InitWith({8}, {"Mouse"}, FrameSizes, {NoWindow})

UpdateTick ==
    Update(AcquireResults, BOOLEAN, {TRUE}, {"ok", "no_output"}, FrameSizes)

NextTick ==
    \/ UpdateTick
    \/ MouseSignal(PointerCorner)

SpecTick == InitTick /\ [][NextTick]_vars

\* One of the two AcquireFrame calls of the tick returned a frame
FrameAcquired ==
    \/ tick.acquire1 = "S_OK" /\ tick.reinit = "none"
    \/ tick.acquire2 = "S_OK"

\* C29: PresentFrame runs only in a tick one of whose AcquireFrame calls
\* returned a frame and whose resolve has run, and the ViewState it is given
\* is the one that resolve published: the zoom of the tick and the source
\* region of the tick's center in a frame of the session's dimensions.
C29_PresentAfterResolve ==
    /\ tick.drawn.swapped => tick.presented
    /\ tick.presented =>
           /\ tick.fresh /\ FrameAcquired /\ tick.resolved
           /\ app.view_state_.zoom = app.zoom_
           /\ app.view_state_.source_region = SourceRegion(app, capture.frame_desc_)
           /\ RegionInFrame(app.view_state_.source_region, capture.frame_desc_)

\* A tick loses the session, rebuilds it at 1600 x 900 and presents the
\* frame of the second AcquireFrame
C29_Witness ==
    /\ tick.presented /\ tick.drawn.swapped
    /\ tick.acquire1 = "ACCESS_LOST" /\ tick.reinit = "ok" /\ tick.acquire2 = "S_OK"
    /\ capture.frame_desc_.Width = 1600
    /\ app.view_state_.source_region.right > 960

(***************************************************************************)
(* SpecTeardown: what StartMagnifier and App::Shutdown release, and in     *)
(* which order                                                             *)
(***************************************************************************)
InitTeardown == InitWith({kMaxZoom - 1}, {"Manual"}, {FullHD}, {NoWindow})

\* WM_DESTROY of the message window (app.cpp:1096-1098): PostQuitMessage
\* with the magnifier as it is
OnDestroy ==
    /\ Running
    /\ app' = [app EXCEPT !.quit_posted = TRUE]
    /\ tick' = Stale
    /\ UNCHANGED <<capture, now, foreground, magnifier>>

ToggleTeardown == HotkeyToggleMagnifier(BOOLEAN, CreateDuplicationOutcomes, {FullHD}, BOOLEAN)

NextTeardown ==
    \/ Update({"S_OK", "ACCESS_LOST"}, {TRUE}, {TRUE}, {"ok"}, {FullHD})
    \/ HotkeyZoomIn
    \/ HotkeySwitchMode
    \/ ToggleTeardown
    \/ HotkeyQuit
    \/ OnDestroy
    \/ AppShutdown

SpecTeardown == InitTeardown /\ [][NextTeardown]_vars

\* The place of an object in the log, 0 when the log does not name it
RECURSIVE IndexFrom(_, _, _)
IndexFrom(log, name, i) ==
    IF i > Len(log) THEN 0
    ELSE IF log[i] = name THEN i
    ELSE IndexFrom(log, name, i + 1)

\* When the log names both objects, it names a first
Precedes(log, a, b) ==
    IndexFrom(log, a, 1) # 0 /\ IndexFrom(log, b, 1) # 0
        => IndexFrom(log, a, 1) < IndexFrom(log, b, 1)

\* The views of the window and what each is a view of
ViewsOf ==
    {<<"rtv_", "swap_chain_">>, <<"overlay_srv_", "overlay_texture_">>,
     <<"status_overlay_srv_", "status_overlay_texture_">>,
     <<"cursor_srv_", "cursor_texture_">>}

\* The objects created from the device
DeviceObjects ==
    {"duplication_", "staging_", "swap_chain_", "rtv_", "overlay_srv_",
     "overlay_texture_", "status_overlay_srv_", "status_overlay_texture_",
     "cursor_srv_", "cursor_texture_", "pointer_vertex_buffer_"}

\* The objects of the capture engine among them
EngineObjects == {"duplication_", "staging_"}

\* C23 as stated: a teardown releases the frame before the session, every
\* view before what it is a view of and every object before the device.
C23_DependencyOrder ==
    /\ Precedes(tick.released, "frame", "duplication_")
    /\ \A p \in ViewsOf : Precedes(tick.released, p[1], p[2])
    /\ \A r \in DeviceObjects : Precedes(tick.released, r, "device_")

\* C23: a teardown releases the frame before the session and the engine's
\* session and staging texture before the device; App::Shutdown releases
\* every object of the window before the device, while StartMagnifier
\* releases the device before the objects of the window it replaces; the
\* cursor's view goes before its texture and a badge that StopMagnifier
\* clears loses its view before its texture, but MagnifierWindow::Shutdown
\* releases the swap chain before the render-target view and the texture of
\* a badge it finds before the badge's view.
C23_TeardownOrder ==
    /\ Precedes(tick.released, "frame", "duplication_")
    /\ \A r \in EngineObjects : Precedes(tick.released, r, "device_")
    /\ \A r \in DeviceObjects :
          IF tick.teardown = "attach" /\ r \notin EngineObjects
          THEN Precedes(tick.released, "device_", r)
          ELSE Precedes(tick.released, r, "device_")
    /\ Precedes(tick.released, "cursor_srv_", "cursor_texture_")
    /\ Precedes(tick.released, "swap_chain_", "rtv_")
    /\ \A p \in {<<"overlay_srv_", "overlay_texture_">>,
                  <<"status_overlay_srv_", "status_overlay_texture_">>} :
          IF tick.stopped
          THEN Precedes(tick.released, p[1], p[2])
          ELSE Precedes(tick.released, p[2], p[1])

\* App::Shutdown stops the magnifier, clears a badge and releases the
\* window, the cursor's texture, the session and the device
C23_Witness ==
    /\ tick.teardown = "exit" /\ tick.stopped
    /\ \A r \in {"overlay_srv_", "overlay_texture_", "swap_chain_", "rtv_",
                  "cursor_srv_", "cursor_texture_", "duplication_", "staging_",
                  "device_"} : IndexFrom(tick.released, r, 1) # 0

\* StartMagnifier replaces a window that holds a status badge
C23_WitnessAttach ==
    /\ tick.teardown = "attach" /\ ~tick.stopped
    /\ \A r \in {"device_", "swap_chain_", "rtv_", "status_overlay_srv_",
                  "status_overlay_texture_"} : IndexFrom(tick.released, r, 1) # 0

\* The engine holds a session and its staging texture
SessionBuilt(c) == c.device_ /\ c.duplication_ /\ c.staging_

\* C25: a StartMagnifier whose device, session or texture is not created
\* leaves the magnifier inactive and the engine with no request for a
\* rebuild, and while the magnifier is inactive no step but the next
\* StartMagnifier changes the engine.
C25_FailedAttachInert ==
    /\ [](tick.teardown = "attach" /\ ~SessionBuilt(capture)
             => ~app.magnifier_active_ /\ ~capture.needs_reinitialize_)
    /\ [][~app.magnifier_active_ /\ tick'.teardown = "none" => capture' = capture]_vars

\* The staging texture is not created when the magnifier is started again
C25_Witness ==
    /\ tick.teardown = "attach"
    /\ capture.device_ /\ capture.duplication_ /\ ~capture.staging_
    /\ ~app.magnifier_active_ /\ ~capture.needs_reinitialize_


(***************************************************************************)
(* SpecIdle: the tick against every failure, up to and past the inactivity *)
(* restart                                                                 *)
(***************************************************************************)
\* Just before and at kInactivityRestartMs since the start
IdleOffsets == {kInactivityRestartMs - 1, kInactivityRestartMs}

\* The present succeeds, or the frame's shader resource view is not created
IdlePresents == {PresentOk, [PresentOk EXCEPT !.srv = FALSE]}

InitIdle == InitWith({8}, {"Mouse"}, {FullHD}, {NoWindow})

UpdateIdle ==
    UpdateWith(AcquireResults, BOOLEAN, {TRUE}, {"ok", "no_output"}, {FullHD},
               {FALSE}, IdlePresents)

NextIdle ==
    \/ UpdateIdle
    \/ MouseSignal(PointerCorner)
    \/ \E t \in Instants(IdleOffsets) : AdvanceTo(t)

SpecIdle == InitIdle /\ [][NextIdle]_vars

\* The last tick met a failure of the capture or of the present: a timeout,
\* an invalidated session, another failure of the acquisition, a frame whose
\* texture could not be queried, a failed Reinitialize, or a call of the
\* present that failed
AcquireFailures == {"WAIT_TIMEOUT", "ACCESS_LOST", "FAILED"}

TickFailed ==
    /\ tick.fresh
    /\ \/ tick.acquire1 \in AcquireFailures
       \/ tick.acquire2 \in AcquireFailures
       \/ tick.reinit = "fail"
       \/ tick.acquire1 # "none" /\ ~tick.presented
       \/ tick.met # PresentOk

C26_WitnessIdle ==
    /\ tick.fresh /\ tick.acquire1 = "WAIT_TIMEOUT" /\ tick.restart = "failed"
    /\ app.magnifier_active_ /\ Running


(***************************************************************************)
(* SpecSignal: the three signals, a key and a zoom step between the ticks  *)
(***************************************************************************)
SignalOffsets == {161}

InitSignal == InitWith({kMaxZoom - 1}, {"Caret"}, {FullHD}, {NoWindow})

SignalStep ==
    \/ CaretSignal(CaretFar)
    \/ MouseSignal(PointerNear)
    \/ FocusSignal(FocusBox)

NextSignal ==
    \/ UpdateView
    \/ SignalStep
    \/ KeyEvent("A", TRUE, NoPoint)
    \/ HotkeyZoomIn
    \/ \E t \in Instants(SignalOffsets) : AdvanceTo(t)

SpecSignal == InitSignal /\ [][NextSignal]_vars

\* The center with its history, the zoom and the published ViewState
ViewOf(a) ==
    [center |-> CenterOf(a),
     previous |-> [has |-> a.has_previous_center_, x |-> a.previous_center_x_,
                   y |-> a.previous_center_y_, saved |-> a.previous_center_saved_tick_],
     zoom |-> a.zoom_, view_state |-> a.view_state_]

\* a with the members set to those of b which the three callbacks write: the
\* signals' values and timestamps, the click lock and the reply lock which a
\* pointer movement ends, and the time of the last input
SignalsFrom(a, b) ==
    [a EXCEPT !.caret_position_ = b.caret_position_,
              !.last_caret_tick_ = b.last_caret_tick_,
              !.mouse_position_ = b.mouse_position_,
              !.last_mouse_tick_ = b.last_mouse_tick_,
              !.focus_rect_ = b.focus_rect_,
              !.last_focus_tick_ = b.last_focus_tick_,
              !.click_lock_active_ = b.click_lock_active_,
              !.messenger_zone_active_ = b.messenger_zone_active_,
              !.last_user_activity_tick_ = b.last_user_activity_tick_]

\* C27 as stated: the center, the zoom and the ViewState change in no step
\* but a tick that resolves the view.
C27_OnlyResolveChanges ==
    [][ViewOf(app') # ViewOf(app) => tick'.fresh /\ tick'.resolved]_vars

\* C27: a caret, pointer or focus callback records its value and the time,
\* ends a lock that the pointer's movement ends, and changes nothing else of
\* the app, the window or the engine: not the center, the zoom or the
\* ViewState; and the ViewState changes in no step but a tick that resolves
\* the view.
C27_SignalsOnlyRecord ==
    [][/\ SignalStep => /\ ViewOf(app') = ViewOf(app)
                        /\ SignalsFrom(app', app) = app
                        /\ magnifier' = magnifier /\ capture' = capture
       /\ app'.view_state_ # app.view_state_ => tick'.fresh /\ tick'.resolved]_vars

\* All three signals have arrived since the last resolve, whose center and
\* ViewState stand
C27_Witness ==
    /\ ~tick.fresh /\ app.has_center_
    /\ app.view_state_.zoom = app.zoom_
    /\ app.last_caret_tick_ > StartTime /\ app.caret_position_ = CaretFar
    /\ app.last_mouse_tick_ > StartTime /\ app.mouse_position_ = PointerNear
    /\ app.last_focus_tick_ > StartTime /\ app.focus_rect_ = FocusBox


(***************************************************************************)
(* Claims checked under SpecZoom: the wheel                                *)
(***************************************************************************)
\* C28: a wheel event is consumed exactly when Ctrl and Alt are both held;
\* a consumed one moves the zoom by 0.25 per notch, up to the bounds, and
\* one that is not consumed leaves the zoom, the center with its history and
\* the ViewState as they were.
C28_WheelGate ==
    [][\A delta \in WheelDeltas :
         WheelEvent(delta) =>
           LET held == app.control_down_ /\ app.alt_down_
               notches == delta \div WHEEL_DELTA
           IN  /\ OnWheel(app, delta).consumed = held
               /\ held => app'.zoom_ = Clamp(app.zoom_ + kZoomStep * notches,
                                             kMinZoom, kMaxZoom)
               /\ ~held => ViewOf(app') = ViewOf(app) /\ magnifier' = magnifier]_vars

\* With Ctrl and Alt held a zoom step has discarded the center and its
\* percentage is on display
C28_Witness ==
    /\ app.control_down_ /\ app.alt_down_
    /\ ~app.has_center_ /\ app.zoom_ # app.view_state_.zoom
    /\ magnifier.overlay_srv_ /\ magnifier.overlay_expire_tick_ = now + ZoomOverlayDurationMs

\* A resolved center stands while only one of the two keys is held
C28_WitnessUnheld ==
    /\ app.control_down_ /\ ~app.alt_down_
    /\ app.has_center_ /\ app.zoom_ = app.view_state_.zoom


(***************************************************************************)
(* SpecLock: a click and then the focus rectangle far from it, the pointer *)
(* at rest, over most of a minute                                          *)
(***************************************************************************)
\* 10 s after the click its limit is 500 px; LockFadeMs after it the limit
\* is the frame's width
LockFadeMs == (FullHD.Width * 1000) \div kClickLimitPixelsPerSecond

LockOffsets == {10000, LockFadeMs, kInactivityRestartMs - 1000}

FocusFar == Rect(1500, 800, 1700, 900)

InitLock == InitWith({8}, {"Focus"}, {FullHD}, {NoWindow})

ClickAtStart == now = StartTime /\ LeftClick(ClickPoint)

UpdateLock == Update({"S_OK"}, {TRUE}, {TRUE}, {"ok"}, {FullHD})

NextLock ==
    \/ UpdateLock
    \/ ClickAtStart
    \/ FocusSignal(FocusFar)
    \/ \E t \in Instants(LockOffsets) : AdvanceTo(t)

SpecLock == InitLock /\ [][NextLock]_vars

\* The time since the last click
SinceClick == now - app.last_click_tick_

\* C30 as stated: a bounded time after a click, the pointer at rest and no
\* further click, the lock is no longer active.
C30_LockExpires ==
    app.has_last_click_ /\ SinceClick >= LockFadeMs => ~app.click_lock_active_

\* The app after a resolve that finds no click lock
Unlocked(a) == [a EXCEPT !.click_lock_active_ = FALSE]

\* C30: with the pointer at rest and no further click the lock stays active
\* however long ago the click was; its limit grows by 50 px per second, and
\* once it has reached the frame's width a resolve yields the center, the
\* zoom and the ViewState that it yields without the lock.
C30_LockFades ==
    [][/\ ClickLocked /\ app.magnifier_active_ => app'.click_lock_active_
       /\ tick'.fresh /\ tick'.resolved /\ ClickLocked /\ SinceClick >= LockFadeMs =>
             ViewOf(app') = ViewOf(UpdateViewState(Unlocked(app), capture'.frame_desc_,
                                                   now, foreground))]_vars

\* LockFadeMs after the click the lock is active and a resolve has moved the
\* center more than 500 px from the click point towards the focus rectangle
C30_Witness ==
    /\ Resolved /\ ClickLocked /\ tick.source = "focus"
    /\ SinceClick = LockFadeMs
    /\ app.current_center_x_ > FAdd(app.last_click_source_.x, Px(500))

\* 10 s after the click a resolve holds the center 500 px right of the click
\* point, short of the focus rectangle
C30_WitnessClipped ==
    /\ Resolved /\ ClickLocked /\ tick.source = "focus"
    /\ SinceClick = 10000
    /\ app.current_center_x_ = FAdd(app.last_click_source_.x, Px(500))


(***************************************************************************)
(* Claims checked under SpecClick: the end of the click lock               *)
(***************************************************************************)
ClickPointers == {ClickPoint, PointerAway}

\* C31 as stated: the next pointer signal and the next left click each leave
\* an active click lock inactive.
C31_SignalOrClickClears ==
    [][/\ app.click_lock_active_
       /\ \/ LeftClick(ClickPoint)
          \/ \E pt \in ClickPointers : MouseSignal(pt)
       => ~app'.click_lock_active_]_vars

\* C31: a pointer signal ends an active click lock exactly when its point
\* differs from the recorded pointer position; a left click leaves the lock
\* active, anchored at the new click's point and time.
C31_MovementClears ==
    [][/\ \A pt \in ClickPointers :
            MouseSignal(pt) /\ app.click_lock_active_ =>
                app'.click_lock_active_ = (pt = app.mouse_position_)
       /\ LeftClick(ClickPoint) =>
            /\ app'.click_lock_active_ /\ app'.has_last_click_
            /\ app'.last_click_tick_ = now
            /\ app'.last_click_position_ = ClickPoint
            /\ app'.last_click_source_ = ScreenToSource(ClickPoint)]_vars

\* After a click the pointer has been reported elsewhere and the lock is off
C31_Witness ==
    /\ app.has_last_click_ /\ ~app.click_lock_active_
    /\ app.last_mouse_tick_ >= app.last_click_tick_
    /\ app.mouse_position_ = PointerAway /\ app.last_click_position_ = ClickPoint

\* After a click the pointer has been reported again at the click's point,
\* later, and the lock is on
C31_WitnessAtRest ==
    /\ app.has_last_click_ /\ app.click_lock_active_
    /\ app.last_mouse_tick_ > app.last_click_tick_
    /\ app.mouse_position_ = ClickPoint


(***************************************************************************)
(* SpecSmooth: the pointer moved between points inside and outside the     *)
(* center range, at most once per instant, and left to go stale            *)
(***************************************************************************)
\* A pointer signal of the first instant is fresh at the second and stale at
\* the third
SmoothOffsets == {100, 200}

SmoothNear == Pt(600, 400)

SmoothFar == Pt(1300, 700)

SmoothPointers == {SmoothNear, SmoothFar, PointerCorner}

InitSmooth == InitWith({8}, {"Mouse"}, {FullHD}, {NoWindow})

SmoothSignal(pt) == app.last_mouse_tick_ < now /\ MouseSignal(pt)

NextSmooth ==
    \/ UpdateLock
    \/ \E pt \in SmoothPointers : SmoothSignal(pt)
    \/ \E t \in Instants(SmoothOffsets) : AdvanceTo(t)

SpecSmooth == InitSmooth /\ [][NextSmooth]_vars

\* The last resolve adopted the pointer or the focus rectangle and found a
\* center, with no click lock, terminal pin or reply lock
SmoothResolve ==
    /\ Resolved /\ tick.source \in {"mouse", "focus"} /\ tick.from.has
    /\ ~ClickLocked /\ ~Anchored /\ ~app.messenger_zone_active_

\* The offset of the adopted target from the center c
OffsetFrom(c) == [dx |-> FSub(AdoptedTarget.x, c.x), dy |-> FSub(AdoptedTarget.y, c.y)]

\* The resolve found the target beyond the dead zone
WasBeyond == BeyondDeadZone(OffsetFrom(tick.from).dx, OffsetFrom(tick.from).dy)

\* e is nearer to the target than d: no farther on either axis, nearer on one
Nearer(e, d) ==
    /\ Abs(e.dx) <= Abs(d.dx) /\ Abs(e.dy) <= Abs(d.dy)
    /\ Abs(e.dx) < Abs(d.dx) \/ Abs(e.dy) < Abs(d.dy)

\* e is 1 - 0.45 of d, to within RangeTolerance
Remains(e, d) == Abs(e - (d \div 20) * 11) <= RangeTolerance

TargetInRange ==
    /\ InCenterRange(AdoptedTarget.x, capture.frame_desc_.Width, app.zoom_)
    /\ InCenterRange(AdoptedTarget.y, capture.frame_desc_.Height, app.zoom_)

\* C32 as stated: a resolve that finds the target beyond the dead zone brings
\* the center nearer to it.
C32_AlwaysNearer ==
    SmoothResolve /\ WasBeyond => Nearer(OffsetFrom(CenterOf(app)), OffsetFrom(tick.from))

\* C32: a resolve that finds a target other than the caret beyond the dead
\* zone moves the center by 0.45 of the offset on each axis and then clamps
\* it to the frame; when the target is in the center range 0.55 of the offset
\* remains on each axis and the center is nearer to the target; a resolve
\* that finds the target within the dead zone leaves the center where it was.
C32_SmoothApproach ==
    SmoothResolve =>
        LET d == OffsetFrom(tick.from)
            e == OffsetFrom(CenterOf(app))
        IN  /\ WasBeyond =>
                  CenterOf(app) = FrameClamped(FAdd(tick.from.x, FMulSmooth(d.dx)),
                                               FAdd(tick.from.y, FMulSmooth(d.dy)))
            /\ WasBeyond /\ TargetInRange =>
                  Remains(e.dx, d.dx) /\ Remains(e.dy, d.dy) /\ Nearer(e, d)
            /\ ~WasBeyond => CenterOf(app) = tick.from

\* A step from (600, 400) towards (1300, 700): 0.45 of the offset is taken
C32_Witness ==
    /\ SmoothResolve /\ WasBeyond /\ TargetInRange
    /\ tick.from = [has |-> TRUE, x |-> Px(600), y |-> Px(400)]
    /\ app.mouse_position_ = SmoothFar
    /\ app.current_center_x_ > Px(914) /\ app.current_center_x_ < Px(916)
    /\ app.current_center_y_ = Px(535)

\* The approach has ended within the dead zone of the target
C32_WitnessAtRest ==
    /\ SmoothResolve /\ ~WasBeyond /\ TargetInRange
    /\ app.mouse_position_ = SmoothFar /\ CenterOf(app) # [has |-> TRUE, x |-> Px(1300), y |-> Px(700)]


(***************************************************************************)
(* SpecFront: the END key held while the foreground window changes between *)
(* a terminal and a window of another application                          *)
(***************************************************************************)
Fronts == {Terminal, NoWindow}

InitFront == InitWith({8}, {"Mouse"}, {FullHD}, Fronts)

NextFront ==
    \/ UpdateView
    \/ \E f \in Fronts : ForegroundChange(f)
    \/ MouseSignal(SmoothFar)
    \/ \E key_down \in BOOLEAN : KeyEvent("END", key_down, NoPoint)
    \/ Advance(kEndHoldThresholdMs)

SpecFront == InitFront /\ [][NextFront]_vars

\* C33 as stated: a resolve applies the terminal pin only while END is held
\* and the foreground window is a terminal.
C33_PinOnlyInFront ==
    Resolved /\ Anchored => app.end_key_down_ /\ foreground.app = "putty"

\* C33: a resolve applies the terminal pin only while END is held.  On a tick
\* where the foreground window is not a terminal the pin is applied exactly
\* when an anchor captured earlier in the hold is still recorded and END has
\* been held for 1000 ms or the alignment is already active; the anchor is
\* then the recorded one and the center is the one pinned to it.  Without a
\* recorded anchor such a tick applies no pin.
C33_PinKeepsAnchor ==
    [][/\ Resolved' /\ Anchored' => app'.end_key_down_
       /\ Resolved' /\ foreground.app # "putty" =>
            /\ Anchored' <=>
                  /\ app.end_key_down_ /\ app.has_putty_anchor_
                  /\ \/ app.end_alignment_active_
                     \/ now - app.end_press_tick_ >= kEndHoldThresholdMs
            /\ Anchored' =>
                  /\ app'.putty_anchor_source_ = app.putty_anchor_source_
                  /\ CenterOf(app') = FrameClamped(Pinned'.x, Pinned'.y)]_vars

\* A resolve with a window of another application in front pins the view to
\* the corner of the terminal that was in front earlier in the hold, away
\* from the fresh pointer
C33_Witness ==
    /\ Resolved /\ Anchored /\ foreground = NoWindow
    /\ tick.source = "none" /\ now - app.last_mouse_tick_ = 0
    /\ app.putty_anchor_source_ = [x |-> Px(185), y |-> Px(1070)]
    /\ CenterOf(app) = FrameClamped(Pinned.x, Pinned.y)
    /\ CenterOf(app) = [has |-> TRUE, x |-> Px(665), y |-> Px(800)]

\* END held for 1000 ms with no terminal in front at any tick: no pin
C33_WitnessNoAnchor ==
    /\ Resolved /\ ~Anchored /\ foreground = NoWindow
    /\ app.end_key_down_ /\ now - app.end_press_tick_ >= kEndHoldThresholdMs
    /\ ~app.has_putty_anchor_


(***************************************************************************)
(* SpecRelease: END held in a terminal for 1000 ms and released, with      *)
(* signals and a typed key inside the 500 ms that follow the release       *)
(***************************************************************************)
\* END pressed at the start is held for 1000 ms at the first offset; released
\* there, the inputs are still ignored at the second offset
ReleaseOffsets == {kEndHoldThresholdMs, kEndHoldThresholdMs + 250}

InitRelease == InitWith({8}, {"Auto"}, {FullHD}, {Terminal})

\* END has been released: the signals and the typed key come after that
Released == ~app.end_key_down_ /\ app.end_ignore_inputs_until_ > 0

NextRelease ==
    \/ UpdateLock
    \/ Released /\ CaretSignal(CaretFar)
    \/ Released /\ MouseSignal(PointerNear)
    \/ Released /\ FocusSignal(FocusBox)
    \/ KeyEvent("END", TRUE, NoPoint)
    \/ now - app.end_press_tick_ >= kEndHoldThresholdMs /\ KeyEvent("END", FALSE, NoPoint)
    \/ Released /\ KeyEvent("A", TRUE, NoPoint)
    \/ \E t \in Instants(ReleaseOffsets) : AdvanceTo(t)

SpecRelease == InitRelease /\ [][NextRelease]_vars

\* END is released and the inputs are still ignored
InWindow == ~app.end_key_down_ /\ now < app.end_ignore_inputs_until_

\* The view is where the terminal pin puts it
AtPin == app.has_putty_anchor_ /\ CenterOf(app) = FrameClamped(Pinned.x, Pinned.y)

C34_WitnessTyped ==
    /\ InWindow /\ app.has_putty_anchor_ /\ ~AtPin
    /\ app.last_caret_target_tick_ = now
    /\ app.end_ignore_inputs_until_ - kEndIgnoreCursorMs - app.end_press_tick_ >= kEndHoldThresholdMs
    /\ CenterOf(app) = Clamped(CaretShifted.x, CaretShifted.y)


(***************************************************************************)
(* SpecReply: a click in the reply strip of a messenger and the pointer    *)
(* moved around the click                                                  *)
(***************************************************************************)
\* Pointer positions 10 px and 11 px from the click at StripPoint
ReplyPointers ==
    {Pt(StripPoint.x + dx, StripPoint.y + dy) : dx \in {-11, 0, 10}, dy \in {-10, 0, 11}}

InitReply == InitWith({8}, {"Mouse"}, {FullHD}, {Messenger})

NextReply ==
    \/ UpdateLock
    \/ LeftClick(StripPoint)
    \/ \E pt \in ReplyPointers : MouseSignal(pt)
    \/ \E t \in Instants({TimeStep}) : AdvanceTo(t)

SpecReply == InitReply /\ [][NextReply]_vars

\* C35: a pointer signal that finds the reply lock active releases it when
\* the pointer is more than 10 px from the click on either axis and leaves
\* it active, with the anchor of the click, when the pointer is within 10 px
\* on both axes.
C35_ReplyLockRadius ==
    [][\A pt \in ReplyPointers :
          MouseSignal(pt) /\ app.messenger_zone_active_ =>
              /\ app'.messenger_zone_active_ =
                     (/\ Abs(pt.x - app.messenger_anchor_.x) <= 10
                      /\ Abs(pt.y - app.messenger_anchor_.y) <= 10)
              /\ app'.messenger_anchor_ = app.messenger_anchor_]_vars

\* The pointer 10 px right of and above the click: the lock is still active
C35_Witness ==
    /\ app.messenger_zone_active_ /\ app.messenger_anchor_ = StripPoint
    /\ app.last_mouse_tick_ = now /\ app.last_click_tick_ < now
    /\ app.mouse_position_ = Pt(StripPoint.x + 10, StripPoint.y - 10)

\* The pointer 11 px below the click and level with it: the lock is released
C35_WitnessReleased ==
    /\ ~app.messenger_zone_active_ /\ app.messenger_anchor_ = StripPoint
    /\ app.last_mouse_tick_ = now /\ app.last_click_tick_ = now
    /\ app.mouse_position_ = Pt(StripPoint.x, StripPoint.y + 11)


(***************************************************************************)
(* SpecRecord: the caret snapped in Caret mode and the pointer followed in  *)
(* Mouse mode between points 159 px and 160 px apart, inside and after the *)
(* record cooldown                                                         *)
(***************************************************************************)
\* The second record is refused at the first offset and made at the second
RecordOffsets == {kPreviousCenterRecordCooldownMs \div 2, kPreviousCenterRecordCooldownMs}

RecordBase == Pt(600, 500)

\* kPreviousCenterRecordThreshold px right of RecordBase
RecordAt == Pt(RecordBase.x + kPreviousCenterRecordThreshold, RecordBase.y)

\* One pixel short of it
RecordShort == Pt(RecordAt.x - 1, RecordBase.y)

InitRecord == InitWith({8}, {"Caret", "Mouse"}, {FullHD}, {NoWindow})

NextRecord ==
    \/ UpdateLock
    \/ \E pt \in {RecordBase, RecordAt, RecordShort} :
          app.tracking_mode_ = "Caret" /\ CaretSignal(pt)
    \/ \E pt \in {RecordBase, RecordAt} :
          app.tracking_mode_ = "Mouse" /\ SmoothSignal(pt)
    \/ \E t \in Instants(RecordOffsets) : AdvanceTo(t)

SpecRecord == InitRecord /\ [][NextRecord]_vars

PreviousOf(a) == ViewOf(a).previous

\* The record is due: nothing is recorded or the cooldown has passed
RecordDue ==
    \/ ~app.has_previous_center_
    \/ now - app.previous_center_saved_tick_ >= kPreviousCenterRecordCooldownMs

C36_WitnessCooldown ==
    /\ Resolved /\ tick.source = "caret"
    /\ tick.from = [has |-> TRUE, x |-> Px(RecordBase.x + kCaretWidthShift), y |-> Px(RecordBase.y)]
    /\ CenterOf(app) = [has |-> TRUE, x |-> Px(RecordAt.x + kCaretWidthShift), y |-> Px(RecordAt.y)]
    /\ app.has_previous_center_
    /\ now - app.previous_center_saved_tick_ = kPreviousCenterRecordCooldownMs \div 2

\* A pointer 160 px away: the center has moved by 72 px and is recorded
C36_WitnessStep ==
    /\ Resolved /\ tick.source = "mouse"
    /\ tick.from = [has |-> TRUE, x |-> Px(RecordBase.x), y |-> Px(RecordBase.y)]
    /\ app.current_center_x_ < Px(RecordBase.x + 73)
    /\ PreviousOf(app) = [has |-> TRUE, x |-> tick.from.x, y |-> tick.from.y, saved |-> now]


\* C37: in every state reached by END key-downs, END key-ups, ticks, pointer
\* signals, changes of the foreground window and the passing of time, an
\* active terminal alignment implies that END is held and that a terminal
\* anchor has been captured.
C37_AlignmentNeedsKeyAndAnchor ==
    app.end_alignment_active_ => app.end_key_down_ /\ app.has_putty_anchor_

\* The alignment is active after a tick with END held for 1000 ms in a terminal
C37_Witness ==
    /\ Resolved /\ app.end_alignment_active_ /\ foreground = Terminal
    /\ now - app.end_press_tick_ >= kEndHoldThresholdMs

\* END released after an active alignment: the flag is cleared with the key
C37_WitnessReleased ==
    /\ ~app.end_key_down_ /\ ~app.end_alignment_active_ /\ app.has_putty_anchor_
    /\ app.end_ignore_inputs_until_ = now + kEndIgnoreCursorMs
    /\ now - app.end_press_tick_ >= kEndHoldThresholdMs


(***************************************************************************)
(* Claims checked under Spec: the frame handed to the present              *)
(***************************************************************************)
\* C38: every frame that a tick hands to PresentFrame carries the staging
\* texture: the engine holds no session without its staging texture when
\* AcquireFrame returns a frame.
C38_FrameHasTexture == tick.presented => tick.texture


(***************************************************************************)
(* SpecKey: keys pressed and released in Caret and Manual mode, with the   *)
(* magnifier switched on and off and the caret on and off the source       *)
(* monitor                                                                 *)
(***************************************************************************)
KeyKeys == {"A", "LWIN", "SHIFT"}

\* What the caret query of a key event reports: nothing, or a caret
KeyRefreshes == {NoPoint, [ok |-> TRUE, x |-> CaretA.x, y |-> CaretA.y]}

InitKey == InitWith({8}, {"Caret", "Manual"}, {FullHD}, {NoWindow})

NextKey ==
    \/ UpdateLock
    \/ \E pt \in {CaretFar, CaretCorner, PointerAway} : CaretSignal(pt)
    \/ \E vk \in KeyKeys, key_down \in BOOLEAN, refresh \in KeyRefreshes :
          KeyEvent(vk, key_down, refresh)
    \/ HotkeyToggleMagnifier({TRUE}, {"ok"}, {FullHD}, {TRUE})

SpecKey == InitKey /\ [][NextKey]_vars

\* C39: a key-down of a key that is no modifier, and a Win key-up, with the
\* magnifier active and the mode not Manual, sets the center in the key
\* handler itself to the recorded caret position, which the caret query of
\* the handler may just have renewed, moved right by 4 px and clamped so that
\* the view fits the frame, provided the caret is on the source monitor.
\* Every other key event, and every key event in Manual mode, with the
\* magnifier inactive or with the caret off the source monitor, leaves the
\* center as it is.
C39_KeySnapsToCaret ==
    [][\A vk \in KeyKeys, key_down \in BOOLEAN, refresh \in KeyRefreshes :
          KeyEvent(vk, key_down, refresh) =>
              LET snaps == (vk = "A" /\ key_down) \/ (vk = "LWIN" /\ ~key_down)
                  asked == snaps /\ app.tracking_mode_ # "Manual"
                  caret == IF asked /\ refresh.ok THEN Pt(refresh.x, refresh.y)
                           ELSE app.caret_position_
                  src == ScreenToSource(caret)
              IN  /\ ~Resolved'
                  /\ CenterOf(app') =
                         IF asked /\ app.magnifier_active_ /\ src.ok
                         THEN FrameClamped(FAdd(src.x, Px(kCaretWidthShift)), src.y)
                         ELSE CenterOf(app)]_vars

\* Before any tick a key-down has put the center at the clamp nearest to the
\* caret in the corner of the monitor
C39_Witness ==
    /\ app.magnifier_active_ /\ app.tracking_mode_ = "Caret"
    /\ app.view_state_ = AppInit(8, "Caret").view_state_
    /\ app.caret_position_ = CaretCorner /\ app.last_caret_target_tick_ = now
    /\ CenterOf(app) = [has |-> TRUE, x |-> Px(1440), y |-> Px(810)]

\* In Manual mode the keys have left the center a resolve has set
C39_WitnessManual ==
    /\ app.magnifier_active_ /\ app.tracking_mode_ = "Manual"
    /\ app.caret_position_ = CaretFar /\ ~Resolved
    /\ CenterOf(app) = [has |-> TRUE, x |-> Px(960), y |-> Px(540)]


(***************************************************************************)
(* Monitor selection (app.cpp:435-528) and the handlers that run it:       *)
(* SwapMonitors (app.cpp:1128-1181) and HandleDisplayConfigurationChange   *)
(* (app.cpp:1754-1790).  A device name is the text before its digits and   *)
(* the decimal digits; a monitor is a device name and the primary flag;    *)
(* indices count from 0 as in the code, -1 is none.                        *)
(***************************************************************************)
\* \\.\DISPLAY followed by the digits
DisplayName(digits) == [device |-> "DISPLAY", digits |-> digits]

\* The empty string
EmptyName == [device |-> "", digits |-> <<>>]

RECURSIVE Decimal(_)
\* wcstol(digits, &end, 10) on a string of decimal digits
Decimal(digits) ==
    IF digits = <<>> THEN 0
    ELSE Decimal(SubSeq(digits, 1, Len(digits) - 1)) * 10 + digits[Len(digits)]

\* A display number read from the first digit alone
display_number_first(name) ==
    IF name.device # "DISPLAY" \/ name.digits = <<>> \/ name.digits[1] <= 0 THEN -1
    ELSE name.digits[1]

\* The lambda display_number (app.cpp:457-471)
display_number(name) ==
    IF name.device # "DISPLAY" \/ name.digits = <<>> \/ Decimal(name.digits) <= 0 THEN -1
    ELSE Decimal(name.digits)

\* The first index of the set, or -1
FirstIndex(S) == IF S = {} THEN -1 ELSE CHOOSE i \in S : \A j \in S : i <= j

Indices(list) == 0 .. Len(list) - 1

\* The lambda find_by_name (app.cpp:444-454)
find_by_name(list, name) ==
    IF name = EmptyName THEN -1
    ELSE FirstIndex({i \in Indices(list) : list[i + 1].device_name = name})

\* The lambda find_by_number (app.cpp:473-480)
find_by_number(list, number) ==
    FirstIndex({i \in Indices(list) : display_number(list[i + 1].device_name) = number})

\* App::SelectMonitors on the monitors that Refresh enumerates; selected_
\* records what the call returned
SelectMonitors(a, list) ==
    LET r == [a EXCEPT !.monitors_ = list]
        destination == find_by_number(list, 2)
        named == find_by_name(list, a.config_.source_monitor)
        primary == FirstIndex({i \in Indices(list) : i # destination /\ list[i + 1].primary})
        other == FirstIndex({i \in Indices(list) : i # destination})
        source == IF named >= 0 /\ named # destination THEN named
                  ELSE IF primary >= 0 THEN primary ELSE other
    IN  IF Len(list) < 2 \/ destination < 0 \/ source < 0
        THEN [a |-> [r EXCEPT !.selected_ = FALSE], ok |-> FALSE]
        ELSE [a |-> [r EXCEPT !.source_index_ = source,
                              !.magnifier_index_ = destination,
                              !.config_ = [source_monitor |-> list[source + 1].device_name,
                                           magnifier_monitor |-> list[destination + 1].device_name],
                              !.selected_ = TRUE],
              ok |-> TRUE]

\* The app, the engine and the window after SelectMonitors, which shows a
\* status badge when it fails (app.cpp:438-441, 484-488, 515-519)
SelectIn(w, list, t) ==
    LET s == SelectMonitors(w.a, list)
    IN  [a |-> s.a, c |-> w.c,
         m |-> IF s.ok THEN w.m
               ELSE ShowStatusMessage(w.m, FALSE, kStatusBadgeDurationMs, t, TRUE),
         ok |-> s.ok]

\* SourceMonitor() and MagnifierMonitor() return monitors_.at(index)
IndicesInRange(a) ==
    /\ a.source_index_ \in Indices(a.monitors_)
    /\ a.magnifier_index_ \in Indices(a.monitors_)

\* App::ConfigureForCurrentMonitors; ok: InitializeForMonitor and
\* MagnifierWindow::Initialize succeed, otherwise InitializeForMonitor fails.
\* An index out of the list's range makes at() throw, which nothing catches:
\* the process ends.
ConfigureIn(w, ok) ==
    IF ~IndicesInRange(w.a)
    THEN [a |-> [w.a EXCEPT !.quit_posted = TRUE], c |-> w.c, m |-> w.m, ok |-> FALSE]
    ELSE IF ok
    THEN [a |-> w.a, c |-> InitializeForMonitor(w.c, TRUE, "ok", MagnifierMonitorSize).c,
          m |-> MagnifierInitialize(MagnifierWindowInit, "ok", MagnifierMonitorSize),
          ok |-> TRUE]
    ELSE [a |-> w.a, c |-> InitializeForMonitor(w.c, TRUE, "no_output", w.c.frame_desc_).c,
          m |-> w.m, ok |-> FALSE]

\* App::StartMagnifier
StartIn(w, list, ok, t) ==
    LET s == IF w.a.source_index_ < 0 \/ w.a.magnifier_index_ < 0
             THEN SelectIn(w, list, t)
             ELSE [a |-> w.a, c |-> w.c, m |-> w.m, ok |-> TRUE]
        k == ConfigureIn(s, ok)
    IN  IF ~s.ok THEN s
        ELSE IF ~k.ok THEN k
        ELSE [a |-> ClearCenterHistory([k.a EXCEPT !.magnifier_active_ = TRUE]),
              c |-> k.c,
              m |-> ShowStatusMessage(k.m, FALSE, 2000, t, TRUE),
              ok |-> TRUE]

\* App::StopMagnifier
StopIn(w, t) ==
    [a |-> StopMagnifier(w.a), c |-> w.c, m |-> StopMagnifierWindow(w.m, t), ok |-> TRUE]

WithConfig(w, config) == [w EXCEPT !.a.config_ = config]

\* StartMagnifier if the magnifier was active, else ConfigureForCurrentMonitors
ReconfigureIn(w, was_active, list, ok, t) ==
    IF was_active THEN StartIn(w, list, ok, t) ELSE ConfigureIn(w, ok)

\* App::SwapMonitors; ok and again: whether the configuration, and the one
\* after the configured names are restored, succeed
SwapMonitorsIn(w, list, ok, again, t) ==
    LET u == [w EXCEPT !.a = MarkUserActivity(w.a, t)]
        original == u.a.config_
        was_active == u.a.magnifier_active_
        stopped == IF was_active THEN StopIn(u, t) ELSE u
        s == SelectIn(WithConfig(stopped,
                                 [source_monitor |-> original.magnifier_monitor,
                                  magnifier_monitor |-> original.source_monitor]),
                      list, t)
        restored == SelectIn(WithConfig(s, original), list, t)
        k == ReconfigureIn([s EXCEPT !.a = ClearCenterHistory(s.a)], was_active, list, ok, t)
        back == SelectIn(WithConfig(k, original), list, t)
    IN  IF ~s.ok
        THEN IF was_active THEN StartIn(restored, list, ok, t) ELSE restored
        ELSE IF k.ok \/ k.a.quit_posted THEN k
        ELSE IF back.ok THEN ReconfigureIn(back, was_active, list, again, t)
        ELSE back

\* App::HandleDisplayConfigurationChange once ready_ is set
DisplayChangeIn(w, list, force_restart, ok, t) ==
    LET restart == force_restart \/ w.a.magnifier_active_
        stopped == IF w.a.magnifier_active_ THEN StopIn(w, t) ELSE w
        s == SelectIn(stopped, list, t)
    IN  IF ~s.ok THEN s ELSE ReconfigureIn(s, restart, list, ok, t)

(***************************************************************************)
(* SpecMonitors: the monitors changing and the swap hotkey, on desktops of *)
(* up to MaxMonitors monitors                                              *)
(***************************************************************************)
MaxMonitors == 3

MonitorNames == {DisplayName(<<1>>), DisplayName(<<2>>), DisplayName(<<2, 0>>)}

\* What EnumDisplayMonitors can report: monitors of different names, one of
\* them the primary one
Desktops ==
    {list \in UNION {[1 .. n -> [device_name : MonitorNames, primary : BOOLEAN]] :
                        n \in 1 .. MaxMonitors} :
        /\ \A i, j \in DOMAIN list : list[i].device_name = list[j].device_name => i = j
        /\ Cardinality({i \in DOMAIN list : list[i].primary}) = 1}

\* The members of App that the selection reads and writes, before the first
\* SelectMonitors; source is the configured source monitor
MonitorMembers(source) ==
    [monitors_ |-> <<>>, source_index_ |-> -1, magnifier_index_ |-> -1,
     config_ |-> [source_monitor |-> source, magnifier_monitor |-> EmptyName],
     selected_ |-> FALSE]

World == [a |-> app, c |-> capture, m |-> magnifier, ok |-> TRUE]

\* After InitializeComponents, whose SelectMonitors has succeeded
InitMonitors ==
    /\ \E list \in Desktops, source \in {EmptyName} \cup MonitorNames :
          LET s == SelectMonitors(MonitorMembers(source) @@ AppInit(8, "Mouse"), list)
          IN  s.ok /\ app = s.a
    /\ capture = InitializeForMonitor(CaptureEngineInit, TRUE, "ok", MagnifierMonitorSize).c
    /\ now = StartTime
    /\ foreground = NoWindow
    /\ magnifier = StartMagnifierWindow(MagnifierWindowInit, "ok", StartTime, TRUE)
    /\ tick = NoTick

Becomes(w) ==
    /\ Running
    /\ app' = w.a /\ capture' = w.c /\ magnifier' = w.m
    /\ tick' = Stale
    /\ UNCHANGED <<now, foreground>>

\* The second configuration is run only after the first has failed
AgainFor(ok) == IF ok THEN {TRUE} ELSE BOOLEAN

HotkeySwapMonitors ==
    \E list \in Desktops, ok \in BOOLEAN : \E again \in AgainFor(ok) :
        Becomes(SwapMonitorsIn(World, list, ok, again, now))

DisplayChange ==
    \E list \in Desktops, force_restart \in BOOLEAN, ok \in BOOLEAN :
        Becomes(DisplayChangeIn(World, list, force_restart, ok, now))

NextMonitors == HotkeySwapMonitors \/ DisplayChange

SpecMonitors == InitMonitors /\ [][NextMonitors]_vars

\* The selected monitors are two entries of the list and the destination is
\* the monitor named \\.\DISPLAY2
WellSelected(a) ==
    /\ IndicesInRange(a)
    /\ a.source_index_ # a.magnifier_index_
    /\ a.monitors_[a.magnifier_index_ + 1].device_name = DisplayName(<<2>>)

\* C40: after every successful SelectMonitors, those of SwapMonitors and of a
\* display-configuration change included, the source and the destination are
\* two different entries of the monitor list and the destination is the
\* monitor named DISPLAY2; a SelectMonitors that fails leaves the selected
\* indices as they were.
C40_SelectsDisplay2 ==
    [][/\ app'.selected_ => WellSelected(app')
       /\ ~app'.selected_ =>
            /\ app'.source_index_ = app.source_index_
            /\ app'.magnifier_index_ = app.magnifier_index_]_vars

\* A handler has selected on a desktop where DISPLAY20 is the primary monitor
\* and first in the list: the destination is DISPLAY2 behind it and the
\* source DISPLAY20; the configuration that followed has failed
C40_Witness ==
    /\ app.selected_ /\ WellSelected(app) /\ ~app.magnifier_active_
    /\ Len(app.monitors_) = 3
    /\ app.monitors_[1] = [device_name |-> DisplayName(<<2, 0>>), primary |-> TRUE]
    /\ app.magnifier_index_ = 2 /\ app.source_index_ = 0
    /\ app.config_ = [source_monitor |-> DisplayName(<<2, 0>>),
                      magnifier_monitor |-> DisplayName(<<2>>)]

\* A selection has failed on a desktop without DISPLAY2: the indices stay
C40_WitnessFailed ==
    /\ ~app.selected_ /\ Len(app.monitors_) = 2
    /\ \A i \in DOMAIN app.monitors_ : app.monitors_[i].device_name # DisplayName(<<2>>)
    /\ app.source_index_ >= 0 /\ app.magnifier_index_ >= 0

====
